---------------------------- MODULE Spec2Model ----------------------------
(***************************************************************************)
(* Model of the preview core of bmmd-preview:                              *)
(*   - RenderCache            (src/src/lib/preview/cache.ts)               *)
(*   - ScrollSyncManager      (src/src/lib/preview/scroll-sync.ts) and the *)
(*     surface-side scroll script (webview-content.ts)                     *)
(*   - MarkdownPreviewProvider update path (webview-content.ts) and the    *)
(*     extension's change listener (unnamed/part_000)                      *)
(* Time is the millisecond clock read by Date.now() and used by            *)
(* setTimeout; it advances in steps of TickMs.                             *)
(***************************************************************************)
EXTENDS Integers, Sequences, FiniteSets, TLC

VARIABLES
    now,                 \* Date.now(), in ms
    cache,               \* RenderCache.cache: Map in insertion order, as a sequence of entries
    currentMemorySize,   \* RenderCache.currentMemorySize
    hung,                \* TRUE once a call never returns (set's eviction loop spinning)
    lastOp,              \* the last RenderCache call and its outcome
    streak,              \* keys set one after another since the cache was last empty
    cacheOptions,        \* the RenderCacheOptions the cache was constructed with
    \* ScrollSyncManager (extension side)
    isScrollingFromEditor,
    isScrollingFromWebview,
    scrollTimeout,       \* deadline of the pending 100 ms debounce timer, or NoTimer
    webviewResetTimers,  \* deadlines of the pending 150 ms timers of handleWebviewScroll
    enableScrollSync,    \* configuration bmmd.enableScrollSync
    editorLine,          \* editor.visibleRanges[0].start.line
    editorEvent,         \* an onDidChangeTextEditorVisibleRanges event not yet delivered
    \* scroll script of the surface (webview)
    wvIsScrollingFromEditor,
    wvScrollTimeout,     \* deadline of the surface's pending 100 ms debounce timer, or NoTimer
    wvResetTimers,       \* deadlines of the pending 150 ms timers of handleScrollFromEditor
    scrollTop,           \* container.scrollTop
    wvScrollEvent,       \* a container 'scroll' event not yet delivered
    \* messages in flight
    toWebview,           \* extension -> surface, in send order
    toExtension,         \* surface -> extension, in send order
    \* observation
    appliedAt,           \* when handleScrollFromEditor last applied a scroll, or Never
    echoRevealed,        \* a 'scroll' sent inside the suppression window reached revealRange
    \* MarkdownPreviewProvider and the extension's listeners
    panel,               \* this.panel is defined
    currentDocument,     \* this.currentDocument, or NoDocument
    managerDocument,     \* the document of this.scrollSyncManager, or NoDocument
    cacheCleanupInterval, \* the 60 s cleanup interval is armed
    updateTimeout,       \* deadline of the provider's pending 100 ms timer, or NoTimer
    debounceTimeout,     \* the extension's pending 100 ms timer and the document it captured
    docText,             \* getText() of every open markdown document
    markdownStyle,       \* configuration bmmd.markdownStyle
    codeTheme,           \* configuration bmmd.codeTheme
    readyStage,          \* progress of the surface's 'ready' message
    renders,             \* doUpdatePreview invocations awaiting MarkdownEngine.render
    started,             \* the snapshot of every doUpdatePreview invocation, in start order
    lastPosted,          \* the last message doUpdatePreview posted to the surface
    notifications,       \* showErrorMessage calls made by doUpdatePreview
    rejected,            \* a doUpdatePreview promise was rejected
    consoleWarn,         \* console.warn: the invocations whose interceptors it runs through,
                         \* outermost first; <<>> is the original function
    activeDocument,      \* the markdown document of the editor last seen active
    userEvents,          \* commands, edits and other user events so far
    \* the surface's document
    previewAttrs,        \* attributes of the #preview element
    previewChildren,     \* child nodes of the #preview element
    errorVisible,        \* #error has the class 'visible'
    errorText,           \* textContent of #error-message
    loaded,              \* body has the class 'loaded'
    selected,            \* values of the two select elements of the toolbar
    nextNodeId,          \* identity given to the next node the surface creates
    lastPatch,           \* what the last updatePreviewContent call did
    \* pure functions under test
    input,               \* the function applied and its arguments
    output               \* its result, or NoOutput before the call

cacheVars == <<cache, currentMemorySize, hung, lastOp, streak, cacheOptions>>

scrollVars ==
    <<isScrollingFromEditor, isScrollingFromWebview, scrollTimeout, webviewResetTimers,
      enableScrollSync, editorLine, editorEvent, wvIsScrollingFromEditor, wvScrollTimeout,
      wvResetTimers, scrollTop, wvScrollEvent, toWebview, toExtension, appliedAt, echoRevealed>>

updVars ==
    <<panel, currentDocument, managerDocument, cacheCleanupInterval, updateTimeout,
      debounceTimeout, docText, markdownStyle, codeTheme, readyStage, renders, started,
      lastPosted, notifications, rejected, consoleWarn, activeDocument, userEvents>>

surfVars ==
    <<previewAttrs, previewChildren, errorVisible, errorText, loaded, selected,
      nextNodeId, lastPatch>>

fnVars == <<input, output>>

vars == <<now, cacheVars, scrollVars, updVars, surfVars, fnVars>>

(***************************************************************************)
(* Bounds and configuration                                                *)
(***************************************************************************)
\* SpecCache: steps of TickMs up to MaxTimeCache; SpecCacheLong: steps of
\* LongTickMs (longer than the ttl) up to MaxTimeLong
TickMs == 100
MaxTimeCache == 200
LongTickMs == 150
MaxTimeLong == 450
MaxAccessCount == 2
\* SpecScroll: steps of ScrollTickMs up to MaxTimeScroll, a document of LineCount
\* lines, a surface that scrolls over MaxScroll pixels
ScrollTickMs == 50
MaxTimeScroll == 250
LineCount == 3
MaxScroll == 200
\* SpecUpdate: steps of UpdateTickMs up to MaxTimeUpdate, at most MaxRenders
\* invocations of doUpdatePreview
UpdateTickMs == 50
MaxTimeUpdate == 200
MaxRenders == 3
MaxUserEvents == 3

\* no timer pending; a time before every reading of the clock
NoTimer == 0 - 1
Never == 0 - 1000

\* undefined, for a document
NoDocument == ""

\* the delays of the scroll timers
ScrollDebounceMs == 100
ScrollQuietMs == 150

\* the delays of the extension's and of the provider's update timer
ChangeDebounceMs == 100
UpdateDebounceMs == 100

\* the options of the caches the eviction and expiry tests construct
testMaxSize == 2
testTtl == 100
testMaxMemorySize == 1000
testOptions ==
    [maxSize |-> testMaxSize, ttl |-> testTtl, maxMemorySize |-> testMaxMemorySize]

\* the options MarkdownPreviewProvider constructs its cache with
providerMaxSize == 100
providerTtl == 5 * 60 * 1000
providerMaxMemorySize == 50 * 1024 * 1024
providerOptions ==
    [maxSize |-> providerMaxSize, ttl |-> providerTtl,
     maxMemorySize |-> providerMaxMemorySize]

\* the fields the RenderCache constructor sets from its options
maxSize == cacheOptions.maxSize
ttl == cacheOptions.ttl
maxMemorySize == cacheOptions.maxMemorySize

Keys == {"", "key1", "key2"}

SmallHtml == "<h1>Test 1</h1>"
\* 50 characters: estimated size 200 = 20% of maxMemorySize, still cacheable
EdgeHtml == "<h1>xxxxxxxxxxxxxxxxxxxxxxxxxxxxxxxxxxxxxxxxx</h1>"
\* 51 characters: estimated size 202 > 20% of maxMemorySize
LargeHtml == "<h1>xxxxxxxxxxxxxxxxxxxxxxxxxxxxxxxxxxxxxxxxxx</h1>"

Htmls == {SmallHtml, EdgeHtml, LargeHtml}

(***************************************************************************)
(* RenderCache: pure helpers                                               *)
(***************************************************************************)
estimateSize(str) == Len(str) * 2 + 100

\* mutant: the guard compares with the whole ceiling, not 20% of it
isOversizedWholeCeiling(htmlSize) == htmlSize > maxMemorySize

\* htmlSize > this.maxMemorySize * 0.2, over the integers
isOversized(htmlSize) == htmlSize * 5 > maxMemorySize

\* mutant: the age is taken from lastAccess, so every hit extends the lifetime
isExpiredSliding(entry, t) == t - entry.lastAccess > ttl

\* mutant: an entry of age exactly ttl counts as expired
isExpiredAtTtl(entry, t) == t - entry.timestamp >= ttl

isExpired(entry, t) == t - entry.timestamp > ttl

\* Map.has / position of a key in the Map's iteration order (0: absent)
indexOf(c, key) ==
    IF \E i \in 1..Len(c) : c[i].key = key
    THEN CHOOSE i \in 1..Len(c) : c[i].key = key
    ELSE 0

removeAt(c, i) == [j \in 1..(Len(c) - 1) |-> IF j < i THEN c[j] ELSE c[j + 1]]

\* a JavaScript string is truthy unless it is empty
isTruthy(key) == key # ""

\* the scan of evictLeastRecentlyUsed: index of the first entry whose lastAccess
\* is strictly below every earlier one (lruTime starts at +Infinity)
RECURSIVE lruScan(_, _, _)
lruScan(c, i, lru) ==
    IF i > Len(c) THEN lru
    ELSE IF lru = 0 \/ c[i].lastAccess < c[lru].lastAccess
         THEN lruScan(c, i + 1, i)
         ELSE lruScan(c, i + 1, lru)

\* mutant: the oldest entry by creation time is picked
lruIndexByTimestamp(c) ==
    IF Len(c) = 0 THEN 0
    ELSE CHOOSE i \in 1..Len(c) :
           /\ \A j \in 1..Len(c) : c[i].timestamp <= c[j].timestamp
           /\ \A j \in 1..(i - 1) : c[j].timestamp > c[i].timestamp

lruIndex(c) == lruScan(c, 1, 0)

\* evictLeastRecentlyUsed: the entry is deleted only `if (lruKey)`
evictDeletes(c) == lruIndex(c) # 0 /\ isTruthy(c[lruIndex(c)].key)

evictLeastRecentlyUsed(c, m) ==
    IF evictDeletes(c)
    THEN [cache |-> removeAt(c, lruIndex(c)),
          mem   |-> m - estimateSize(c[lruIndex(c)].html)]
    ELSE [cache |-> c, mem |-> m]

\* mutant: the loop looks at the entry count only
needsRoomCountOnly(c, m, htmlSize) == Len(c) >= maxSize

\* the loop condition of set
needsRoom(c, m, htmlSize) == Len(c) >= maxSize \/ m + htmlSize > maxMemorySize

\* the while loop of set; status "ok": room was made, "abort": the cache is empty
\* and there is still no room, "hang": an iteration evicted nothing, so the loop
\* never ends
RECURSIVE evictLoop(_, _, _, _)
evictNext(e, htmlSize, evicted) == evictLoop(e.cache, e.mem, htmlSize, evicted)

evictLoop(c, m, htmlSize, evicted) ==
    IF ~needsRoom(c, m, htmlSize)
    THEN [cache |-> c, mem |-> m, status |-> "ok", evicted |-> evicted]
    ELSE IF Len(c) = 0
    THEN [cache |-> c, mem |-> m, status |-> "abort", evicted |-> evicted]
    ELSE IF ~evictDeletes(c)
    THEN [cache |-> c, mem |-> m, status |-> "hang", evicted |-> evicted]
    ELSE evictNext(evictLeastRecentlyUsed(c, m), htmlSize, Append(evicted, c[lruIndex(c)].key))

newEntry(key, html, t) ==
    [key |-> key, html |-> html, timestamp |-> t, accessCount |-> 1, lastAccess |-> t]

\* the store at the end of set: Map.set keeps the position of an existing key
storeEntry(c, m, key, html, t) ==
    LET i == indexOf(c, key) IN
    IF i # 0
    THEN [cache |-> [c EXCEPT ![i] = newEntry(key, html, t)],
          mem   |-> m - estimateSize(c[i].html) + estimateSize(html),
          status |-> "ok", evicted |-> <<>>]
    ELSE [cache |-> Append(c, newEntry(key, html, t)),
          mem   |-> m + estimateSize(html),
          status |-> "ok", evicted |-> <<>>]

\* set after its loop: nothing more unless room was made
afterLoop(r, key, html, t) ==
    IF r.status # "ok"
    THEN r
    ELSE [storeEntry(r.cache, r.mem, key, html, t) EXCEPT !.status = "ok", !.evicted = r.evicted]

\* set(key, html) at time t
setResult(c, m, key, html, t) ==
    IF isOversized(estimateSize(html))
    THEN [cache |-> c, mem |-> m, status |-> "rejected", evicted |-> <<>>]
    ELSE afterLoop(evictLoop(c, m, estimateSize(html), <<>>), key, html, t)

\* currentMemorySize after the lazy expiry inside get and has, which is only
\* this.cache.delete(key)
lazyExpire(m, entry) == m

\* get(key) at time t; ret is <<>> for undefined and <<html>> for a hit
getResult(c, m, key, t) ==
    LET i == indexOf(c, key) IN
    IF i = 0
    THEN [cache |-> c, mem |-> m, ret |-> <<>>]
    ELSE IF isExpired(c[i], t)
    THEN [cache |-> removeAt(c, i), mem |-> lazyExpire(m, c[i]), ret |-> <<>>]
    ELSE [cache |-> [c EXCEPT ![i].accessCount = @ + 1, ![i].lastAccess = t],
          mem   |-> m,
          ret   |-> <<c[i].html>>]

\* mutant: has looks the entry up through get, which counts the access
hasResultCounted(c, m, key, t) ==
    [cache |-> getResult(c, m, key, t).cache,
     mem   |-> getResult(c, m, key, t).mem,
     ret   |-> getResult(c, m, key, t).ret # <<>>]

\* has(key) at time t
hasResult(c, m, key, t) ==
    LET i == indexOf(c, key) IN
    IF i = 0
    THEN [cache |-> c, mem |-> m, ret |-> FALSE]
    ELSE IF isExpired(c[i], t)
    THEN [cache |-> removeAt(c, i), mem |-> lazyExpire(m, c[i]), ret |-> FALSE]
    ELSE [cache |-> c, mem |-> m, ret |-> TRUE]

\* mutant: the first entry in iteration order is removed, whatever its key
deleteResultFirst(c, m, key) ==
    IF indexOf(c, key) = 0
    THEN [cache |-> c, mem |-> m]
    ELSE [cache |-> removeAt(c, 1), mem |-> m - estimateSize(c[1].html)]

\* delete(key)
deleteResult(c, m, key) ==
    LET i == indexOf(c, key) IN
    IF i = 0
    THEN [cache |-> c, mem |-> m]
    ELSE [cache |-> removeAt(c, i), mem |-> m - estimateSize(c[i].html)]

\* cleanExpired() at time t
RECURSIVE cleanScan(_, _, _, _, _)
cleanScan(c, i, t, kept, r) ==
    IF i > Len(c) THEN [cache |-> kept, mem |-> r.mem, count |-> r.count]
    ELSE IF isExpired(c[i], t)
    THEN cleanScan(c, i + 1, t, kept,
                   [mem |-> r.mem - estimateSize(c[i].html), count |-> r.count + 1])
    ELSE cleanScan(c, i + 1, t, Append(kept, c[i]), r)

cleanExpiredResult(c, m, t) == cleanScan(c, 1, t, <<>>, [mem |-> m, count |-> 0])

\* getStats()
getStats ==
    [size |-> Len(cache), maxSize |-> maxSize, ttl |-> ttl,
     memorySize |-> currentMemorySize, maxMemorySize |-> maxMemorySize]

\* the scroll state right after construction
ScrollIdle ==
    /\ isScrollingFromEditor = FALSE
    /\ isScrollingFromWebview = FALSE
    /\ scrollTimeout = NoTimer
    /\ webviewResetTimers = {}
    /\ enableScrollSync = TRUE
    /\ editorLine = 0
    /\ editorEvent = FALSE
    /\ wvIsScrollingFromEditor = FALSE
    /\ wvScrollTimeout = NoTimer
    /\ wvResetTimers = {}
    /\ scrollTop = 0
    /\ wvScrollEvent = FALSE
    /\ toWebview = <<>>
    /\ toExtension = <<>>
    /\ appliedAt = Never
    /\ echoRevealed = FALSE

\* the editor's markdown documents
FirstDocument == "a.md"
Documents == {FirstDocument, "b.md"}

\* the texts a document takes
FirstText == "# Hello"
Texts == {"", FirstText}

NoMessage == [type |-> "none"]

\* nothing of the update path is pending
UpdateIdleWith(text, style, theme) ==
    /\ updateTimeout = NoTimer
    /\ debounceTimeout = [deadline |-> NoTimer, document |-> NoDocument]
    /\ docText = [document \in Documents |-> text]
    /\ markdownStyle = style
    /\ codeTheme = theme
    /\ readyStage = {}
    /\ renders = {}
    /\ started = <<>>
    /\ lastPosted = NoMessage
    /\ notifications = 0
    /\ rejected = FALSE
    /\ consoleWarn = <<>>
    /\ activeDocument = FirstDocument
    /\ userEvents = 0

\* ... with the first text and the default configuration
UpdateIdle == UpdateIdleWith(FirstText, "ayu-light", "kimbie-light")

\* the provider's fields other than its cache, before showPreview
ProviderIdle ==
    /\ panel = FALSE
    /\ currentDocument = NoDocument
    /\ managerDocument = NoDocument
    /\ UpdateIdle

\* the surface's document as getWebviewContent writes it: #preview empty, the
\* error box hidden, the first option of each select chosen
SurfaceIdle ==
    /\ previewAttrs = <<<<"id", "preview">>>>
    /\ previewChildren = <<>>
    /\ errorVisible = FALSE
    /\ errorText = ""
    /\ loaded = FALSE
    /\ selected = [markdownStyle |-> "ayu-light", codeTheme |-> "andromeeda"]
    /\ nextNodeId = 1
    /\ lastPatch = [mode |-> "none"]

NoInput == [fn |-> "none"]
NoOutput == [fn |-> "none"]

\* no pure function is under test
NoCall ==
    /\ input = NoInput
    /\ output = NoOutput

(***************************************************************************)
(* RenderCache: the calls as actions                                       *)
(***************************************************************************)
\* name: the method; status: its outcome (set: "ok", "rejected", "abort", "hang";
\* get, has: "hit", "miss", "expired"; delete: "hit", "miss"); n: entries evicted
\* by set, entries removed by cleanExpired or clear, accessCount of the entry get
\* or has found expired
opRecord(name, status, n) == [name |-> name, status |-> status, n |-> n]

lookupStatus(c, key, t) ==
    IF indexOf(c, key) = 0 THEN "miss"
    ELSE IF isExpired(c[indexOf(c, key)], t) THEN "expired"
    ELSE "hit"

lookupCount(c, key, t) ==
    IF lookupStatus(c, key, t) = "expired" THEN c[indexOf(c, key)].accessCount ELSE 0

\* the run of distinct keys set back to back into a cache that was empty
streakAfterSet(key, html) ==
    IF streak.active /\ key \notin streak.keys /\ ~isOversized(estimateSize(html))
    THEN [active |-> TRUE, keys |-> streak.keys \cup {key}]
    ELSE [active |-> FALSE, keys |-> {}]

streakAfterOther(c) == [active |-> Len(c) = 0, keys |-> {}]

\* new RenderCache(options)
newRenderCache(options) ==
    /\ cache = <<>>
    /\ currentMemorySize = 0
    /\ hung = FALSE
    /\ lastOp = opRecord("new", "ok", 0)
    /\ streak = [active |-> TRUE, keys |-> {}]
    /\ cacheOptions = options

\* a cache under test, with no preview open
InitCache ==
    /\ now = 0
    /\ SurfaceIdle
    /\ NoCall
    /\ newRenderCache(testOptions)
    /\ ScrollIdle
    /\ ProviderIdle
    /\ cacheCleanupInterval = FALSE

set(key, html) ==
    /\ ~hung
    /\ \E r \in {setResult(cache, currentMemorySize, key, html, now)} :
       /\ cache' = r.cache
       /\ currentMemorySize' = r.mem
       /\ hung' = (r.status = "hang")
       /\ lastOp' = opRecord("set", r.status, Len(r.evicted))
       /\ streak' = streakAfterSet(key, html)
    /\ UNCHANGED <<surfVars, fnVars, now, cacheOptions, scrollVars, updVars>>

get(key) ==
    /\ ~hung
    /\ lookupStatus(cache, key, now) = "hit"
          => cache[indexOf(cache, key)].accessCount < MaxAccessCount
    /\ \E r \in {getResult(cache, currentMemorySize, key, now)} :
       /\ cache' = r.cache
       /\ currentMemorySize' = r.mem
       /\ lastOp' = opRecord("get", lookupStatus(cache, key, now), lookupCount(cache, key, now))
       /\ streak' = streakAfterOther(r.cache)
    /\ UNCHANGED <<surfVars, fnVars, now, hung, cacheOptions, scrollVars, updVars>>

has(key) ==
    /\ ~hung
    /\ \E r \in {hasResult(cache, currentMemorySize, key, now)} :
       /\ cache' = r.cache
       /\ currentMemorySize' = r.mem
       /\ lastOp' = opRecord("has", lookupStatus(cache, key, now), lookupCount(cache, key, now))
       /\ streak' = streakAfterOther(r.cache)
    /\ UNCHANGED <<surfVars, fnVars, now, hung, cacheOptions, scrollVars, updVars>>

delete(key) ==
    /\ ~hung
    /\ \E r \in {deleteResult(cache, currentMemorySize, key)} :
       /\ cache' = r.cache
       /\ currentMemorySize' = r.mem
       /\ lastOp' = opRecord("delete", IF indexOf(cache, key) = 0 THEN "miss" ELSE "hit", 0)
       /\ streak' = streakAfterOther(r.cache)
    /\ UNCHANGED <<surfVars, fnVars, now, hung, cacheOptions, scrollVars, updVars>>

clear ==
    /\ ~hung
    /\ cache' = <<>>
    /\ currentMemorySize' = 0
    /\ lastOp' = opRecord("clear", "ok", Len(cache))
    /\ streak' = streakAfterOther(<<>>)
    /\ UNCHANGED <<surfVars, fnVars, now, hung, cacheOptions, scrollVars, updVars>>

cleanExpired ==
    /\ ~hung
    /\ \E r \in {cleanExpiredResult(cache, currentMemorySize, now)} :
       /\ cache' = r.cache
       /\ currentMemorySize' = r.mem
       /\ lastOp' = opRecord("cleanExpired", "ok", r.count)
       /\ streak' = streakAfterOther(r.cache)
    /\ UNCHANGED <<surfVars, fnVars, now, hung, cacheOptions, scrollVars, updVars>>

\* time passes between calls
TickCache(tick, maxTime) ==
    /\ ~hung
    /\ now + tick <= maxTime
    /\ now' = now + tick
    /\ UNCHANGED <<surfVars, fnVars, cacheVars, scrollVars, updVars>>

CacheCall ==
    \/ \E key \in Keys, html \in Htmls : set(key, html)
    \/ \E key \in Keys : get(key)
    \/ \E key \in Keys : has(key)
    \/ \E key \in Keys : delete(key)
    \/ clear
    \/ cleanExpired

NextCache ==
    \/ CacheCall
    \/ TickCache(TickMs, MaxTimeCache)

NextCacheLong ==
    \/ CacheCall
    \/ TickCache(LongTickMs, MaxTimeLong)

SpecCache == InitCache /\ [][NextCache]_vars

SpecCacheLong == InitCache /\ [][NextCacheLong]_vars

(***************************************************************************)
(* RenderCache: properties                                                 *)
(***************************************************************************)
RECURSIVE sumSizes(_)
sumSizes(c) == IF Len(c) = 0 THEN 0 ELSE (Len(Head(c).html) * 2 + 100) + sumSizes(Tail(c))

\* C3: after any sequence of set, get, has, delete, clear and cleanExpired calls
\* at any times, getStats().memorySize is at most getStats().maxMemorySize.
C3_MemoryCeiling == getStats.memorySize <= getStats.maxMemorySize

\* a set that had to evict below the entry-count limit: only the memory ceiling
\* asks for that
C3_Witness ==
    /\ lastOp.name = "set" /\ lastOp.status = "ok" /\ lastOp.n >= 1
    /\ Len(cache) < maxSize

\* C4 (as claimed): the running memory total equals the sum of the estimated
\* sizes of exactly the entries currently stored.
C4_MemoryIsSumOfEntries == currentMemorySize = sumSizes(cache)

refLru(c) ==
    CHOOSE i \in 1..Len(c) :
        /\ \A j \in 1..Len(c) : c[i].lastAccess <= c[j].lastAccess
        /\ \A j \in 1..(i - 1) : c[j].lastAccess > c[i].lastAccess

RECURSIVE refEvict(_, _)
refEvict(c, n) == IF n = 0 THEN c ELSE refEvict(removeAt(c, refLru(c)), n - 1)

\* C6: whenever set evicts, each evicted entry has the least lastAccess among
\* the entries stored at that moment, the earliest in iteration order among
\* entries with the same lastAccess; lastAccess is the time of the insertion or
\* of the latest successful get.
C6_EvictsLeastRecentlyUsed ==
    [][\A key \in Keys, html \in Htmls :
          (lastOp'.name = "set" /\ lastOp'.n >= 1 /\ set(key, html)) =>
              /\ lastOp'.n <= Len(cache)
              /\ LET kept == refEvict(cache, lastOp'.n) IN
                 IF lastOp'.status = "ok"
                 THEN cache' = storeEntry(kept, 0, key, html, now).cache
                 ELSE cache' = kept]_vars

\* the first entry was read after the second was inserted, and the second was
\* the one evicted
C6_Witness ==
    /\ lastOp.name = "set" /\ lastOp.status = "ok" /\ lastOp.n = 1
    /\ Len(cache) = 2
    /\ cache[1].accessCount = 2 /\ cache[1].timestamp < cache[1].lastAccess
    /\ cache[2].timestamp = now /\ cache[1].lastAccess < now

\* C7 (as claimed): set(k, h) with h of estimated size at most 20% of
\* maxMemorySize, immediately followed by get(k), returns exactly h.
C7_RoundTrip ==
    [][\A key \in Keys, html \in Htmls :
          (lastOp'.name = "set" /\ ~hung' /\ (Len(html) * 2 + 100) * 5 <= maxMemorySize
              /\ set(key, html)) =>
              getResult(cache', currentMemorySize', key, now').ret = <<html>>]_vars

\* C8: an entry stored at t0 is absent for get and has at every time later than
\* t0 + ttl, whatever hits it had in between, and cleanExpired at such a time
\* removes and counts it.
C8_TtlExpiry ==
    /\ [][\A key \in Keys :
            ((\E i \in 1..Len(cache) : cache[i].key = key /\ now > cache[i].timestamp + ttl)
                /\ (get(key) \/ has(key))) =>
                /\ lastOp'.status = "expired"
                /\ \A i \in 1..Len(cache') : cache'[i].key # key]_vars
    /\ [][cleanExpired =>
            /\ lastOp'.n = Cardinality({i \in 1..Len(cache) : now > cache[i].timestamp + ttl})
            /\ \A i \in 1..Len(cache') : now <= cache'[i].timestamp + ttl]_vars

\* get reports an entry absent that was hit after its insertion
C8_Witness ==
    /\ lastOp.name = "get" /\ lastOp.status = "expired" /\ lastOp.n >= 2

percentOf(num, den) == [num |-> num, den |-> den]

editorPercentOverLineCount(line, totalLines) ==
    IF totalLines > 1 THEN percentOf(line, totalLines) ELSE percentOf(0, 1)

\* syncWebviewScroll: totalLines > 1 ? firstVisibleLine / (totalLines - 1) : 0
editorPercent(line, totalLines) ==
    IF totalLines > 1 THEN percentOf(line, totalLines - 1) ELSE percentOf(0, 1)

\* syncWebviewScroll(editor): the message posted for the first visible line of a
\* document of totalLines lines
syncWebviewScroll(firstVisibleLine, totalLines) ==
    [type |-> "scrollFromEditor",
     percent |-> editorPercent(firstVisibleLine, totalLines),
     line |-> firstVisibleLine]

\* the surface's debounce callback: maxScroll > 0 ? scrollTop / maxScroll : 0
surfacePercent(top, maxScroll) ==
    IF maxScroll > 0 THEN percentOf(top, maxScroll) ELSE percentOf(0, 1)

\* handleScrollFromEditor: targetScroll = percent * maxScroll
targetScroll(percent, maxScroll) == (percent.num * maxScroll) \div percent.den

NoLine == 0 - 1

min(a, b) == IF a < b THEN a ELSE b
max(a, b) == IF a > b THEN a ELSE b

targetLineOverLineCount(percent, line, totalLines) ==
    max(0, min(IF line # NoLine THEN line
               ELSE (percent.num * totalLines) \div percent.den,
               totalLines - 1))

\* handleWebviewScroll: the line revealRange is called with
targetLine(percent, line, totalLines) ==
    max(0, min(IF line # NoLine THEN line
               ELSE (percent.num * (totalLines - 1)) \div percent.den,
               totalLines - 1))

\* the type the model writes a field's value in
declaredType(field) ==
    IF field \in {"percent", "line"} THEN "number" ELSE "string"

\* typeof message[field]: "undefined" for a field left out (a 'scroll' without
\* line carries NoLine), the type named in message.typeof for a value of another
\* type, else the type the model writes the field in
typeOf(message, field) ==
    IF field \notin DOMAIN message THEN "undefined"
    ELSE IF "typeof" \in DOMAIN message /\ field \in DOMAIN message.typeof
    THEN message.typeof[field]
    ELSE IF field = "line" /\ message.line = NoLine THEN "undefined"
    ELSE declaredType(field)

\* MessageValidator.isExtensionToWebviewMessage
isExtensionToWebviewMessage(message) ==
    CASE message.type = "update" -> typeOf(message, "html") = "string"
      [] message.type = "error" -> typeOf(message, "message") = "string"
      [] message.type = "scrollFromEditor" ->
            typeOf(message, "percent") = "number" /\ typeOf(message, "line") = "number"
      [] message.type = "config" ->
            /\ typeOf(message, "markdownStyle") = "string"
            /\ typeOf(message, "codeTheme") = "string"
      [] OTHER -> FALSE

\* MessageValidator.isWebviewToExtensionMessage
isWebviewToExtensionMessage(message) ==
    CASE message.type = "ready" -> TRUE
      [] message.type = "scroll" ->
            /\ typeOf(message, "percent") = "number"
            /\ typeOf(message, "line") \in {"undefined", "number"}
      [] message.type = "openExternal" -> typeOf(message, "url") = "string"
      [] message.type = "error" -> typeOf(message, "message") = "string"
      [] message.type = "changeMarkdownStyle" -> typeOf(message, "style") = "string"
      [] message.type = "changeCodeTheme" -> typeOf(message, "theme") = "string"
      [] OTHER -> FALSE

hostTimers == (IF scrollTimeout = NoTimer THEN {} ELSE {scrollTimeout}) \cup webviewResetTimers
surfaceTimers == (IF wvScrollTimeout = NoTimer THEN {} ELSE {wvScrollTimeout}) \cup wvResetTimers

\* a timer fires once its delay has passed, the earliest of its event loop first
fires(deadline, timers) == deadline <= now /\ \A other \in timers : deadline <= other

\* ---- extension side ----

\* mutant: the listener does not look at isScrollingFromWebview
editorScrollListenerUnguarded ==
    IF managerDocument = NoDocument \/ ~enableScrollSync
    THEN UNCHANGED <<isScrollingFromEditor, scrollTimeout>>
    ELSE /\ isScrollingFromEditor' = TRUE
         /\ scrollTimeout' = now + ScrollDebounceMs

\* the listener of onDidChangeTextEditorVisibleRanges
editorScrollListener ==
    IF managerDocument = NoDocument \/ isScrollingFromWebview \/ ~enableScrollSync
    THEN UNCHANGED <<isScrollingFromEditor, scrollTimeout>>
    ELSE /\ isScrollingFromEditor' = TRUE
         /\ scrollTimeout' = now + ScrollDebounceMs

\* the user scrolls the editor
UserScrollsEditor(line) ==
    /\ line # editorLine
    /\ editorLine' = line
    /\ editorScrollListener
    /\ UNCHANGED <<surfVars, fnVars, now, cacheVars, updVars, isScrollingFromWebview, webviewResetTimers, enableScrollSync,
                   editorEvent, wvIsScrollingFromEditor, wvScrollTimeout, wvResetTimers,
                   scrollTop, wvScrollEvent, toWebview, toExtension, appliedAt, echoRevealed>>

\* the event raised by revealRange reaches the listener
EditorRangesChanged ==
    /\ editorEvent
    /\ editorEvent' = FALSE
    /\ editorScrollListener
    /\ UNCHANGED <<surfVars, fnVars, now, cacheVars, updVars, isScrollingFromWebview, webviewResetTimers, enableScrollSync,
                   editorLine, wvIsScrollingFromEditor, wvScrollTimeout, wvResetTimers,
                   scrollTop, wvScrollEvent, toWebview, toExtension, appliedAt, echoRevealed>>

\* the debounce callback: syncWebviewScroll(editor); isScrollingFromEditor = false
ScrollTimeoutFires ==
    /\ scrollTimeout # NoTimer
    /\ fires(scrollTimeout, hostTimers)
    /\ toWebview' = Append(toWebview, syncWebviewScroll(editorLine, LineCount))
    /\ isScrollingFromEditor' = FALSE
    /\ scrollTimeout' = NoTimer
    /\ UNCHANGED <<surfVars, fnVars, now, cacheVars, updVars, isScrollingFromWebview, webviewResetTimers, enableScrollSync,
                   editorLine, editorEvent, wvIsScrollingFromEditor, wvScrollTimeout,
                   wvResetTimers, scrollTop, wvScrollEvent, toExtension, appliedAt, echoRevealed>>

\* handleWebviewMessage(message), case 'scroll' of a message the validator lets
\* through: handleWebviewScroll(percent, line)
handleWebviewScroll ==
    /\ toExtension # <<>>
    /\ isWebviewToExtensionMessage(Head(toExtension))
    /\ Head(toExtension).type = "scroll"
    /\ toExtension' = Tail(toExtension)
    /\ LET msg == Head(toExtension) IN
       IF managerDocument = NoDocument \/ ~enableScrollSync \/ isScrollingFromEditor
       THEN UNCHANGED <<isScrollingFromWebview, webviewResetTimers, editorLine, editorEvent,
                        echoRevealed>>
       ELSE /\ isScrollingFromWebview' = TRUE
            /\ editorLine' = targetLine(msg.percent, msg.line, LineCount)
            /\ editorEvent' = (editorEvent \/ editorLine' # editorLine)
            /\ webviewResetTimers' = webviewResetTimers \cup {now + ScrollQuietMs}
            /\ echoRevealed' = (echoRevealed \/ msg.echo)
    /\ UNCHANGED <<surfVars, fnVars, now, cacheVars, updVars, isScrollingFromEditor, scrollTimeout, enableScrollSync,
                   wvIsScrollingFromEditor, wvScrollTimeout, wvResetTimers, scrollTop,
                   wvScrollEvent, toWebview, appliedAt>>

\* setTimeout(() => { this.isScrollingFromWebview = false }, 150)
WebviewResetFires(deadline) ==
    /\ deadline \in webviewResetTimers
    /\ fires(deadline, hostTimers)
    /\ isScrollingFromWebview' = FALSE
    /\ webviewResetTimers' = webviewResetTimers \ {deadline}
    /\ UNCHANGED <<surfVars, fnVars, now, cacheVars, updVars, isScrollingFromEditor, scrollTimeout, enableScrollSync,
                   editorLine, editorEvent, wvIsScrollingFromEditor, wvScrollTimeout,
                   wvResetTimers, scrollTop, wvScrollEvent, toWebview, toExtension,
                   appliedAt, echoRevealed>>

\* the user changes bmmd.enableScrollSync
SetEnableScrollSync(value) ==
    /\ value # enableScrollSync
    /\ enableScrollSync' = value
    /\ UNCHANGED <<surfVars, fnVars, now, cacheVars, updVars, isScrollingFromEditor, isScrollingFromWebview, scrollTimeout,
                   webviewResetTimers, editorLine, editorEvent, wvIsScrollingFromEditor,
                   wvScrollTimeout, wvResetTimers, scrollTop, wvScrollEvent, toWebview,
                   toExtension, appliedAt, echoRevealed>>

\* ---- surface side ----

\* the container's 'scroll' listener
containerScrollListener ==
    IF wvIsScrollingFromEditor
    THEN UNCHANGED wvScrollTimeout
    ELSE wvScrollTimeout' = now + ScrollDebounceMs

\* the user scrolls the preview
UserScrollsPreview(top) ==
    /\ panel
    /\ top # scrollTop
    /\ scrollTop' = top
    /\ containerScrollListener
    /\ UNCHANGED <<surfVars, fnVars, now, cacheVars, updVars, isScrollingFromEditor, isScrollingFromWebview, scrollTimeout,
                   webviewResetTimers, enableScrollSync, editorLine, editorEvent,
                   wvIsScrollingFromEditor, wvResetTimers, wvScrollEvent, toWebview,
                   toExtension, appliedAt, echoRevealed>>

\* the event raised by assigning container.scrollTop reaches the listener
ContainerScrolled ==
    /\ wvScrollEvent
    /\ wvScrollEvent' = FALSE
    /\ containerScrollListener
    /\ UNCHANGED <<surfVars, fnVars, now, cacheVars, updVars, isScrollingFromEditor, isScrollingFromWebview, scrollTimeout,
                   webviewResetTimers, enableScrollSync, editorLine, editorEvent,
                   wvIsScrollingFromEditor, wvResetTimers, scrollTop, toWebview,
                   toExtension, appliedAt, echoRevealed>>

\* a 'scroll' message is sent inside the suppression window when less than
\* ScrollQuietMs have passed since handleScrollFromEditor applied a scroll
inSuppressionWindow == appliedAt # Never /\ now - appliedAt < ScrollQuietMs

\* the surface's debounce callback posts { type: 'scroll', percent }
WvScrollTimeoutFires ==
    /\ wvScrollTimeout # NoTimer
    /\ fires(wvScrollTimeout, surfaceTimers)
    /\ toExtension' = Append(toExtension,
           [type |-> "scroll",
            percent |-> surfacePercent(scrollTop, MaxScroll),
            line |-> NoLine,
            echo |-> inSuppressionWindow])
    /\ wvScrollTimeout' = NoTimer
    /\ UNCHANGED <<surfVars, fnVars, now, cacheVars, updVars, isScrollingFromEditor, isScrollingFromWebview, scrollTimeout,
                   webviewResetTimers, enableScrollSync, editorLine, editorEvent,
                   wvIsScrollingFromEditor, wvResetTimers, scrollTop, wvScrollEvent,
                   toWebview, appliedAt, echoRevealed>>

\* handleScrollFromEditor(percent, line), called for the next 'scrollFromEditor'
handleScrollFromEditor ==
    /\ toWebview # <<>>
    /\ Head(toWebview).type = "scrollFromEditor"
    /\ toWebview' = Tail(toWebview)
    /\ wvIsScrollingFromEditor' = TRUE
    /\ scrollTop' = targetScroll(Head(toWebview).percent, MaxScroll)
    /\ wvScrollEvent' = (wvScrollEvent \/ scrollTop' # scrollTop)
    /\ wvResetTimers' = wvResetTimers \cup {now + ScrollQuietMs}
    /\ appliedAt' = now
    /\ UNCHANGED <<surfVars, fnVars, now, cacheVars, updVars, isScrollingFromEditor, isScrollingFromWebview, scrollTimeout,
                   webviewResetTimers, enableScrollSync, editorLine, editorEvent,
                   wvScrollTimeout, toExtension, echoRevealed>>

\* setTimeout(() => { isScrollingFromEditor = false }, 150)
WvResetFires(deadline) ==
    /\ deadline \in wvResetTimers
    /\ fires(deadline, surfaceTimers)
    /\ wvIsScrollingFromEditor' = FALSE
    /\ wvResetTimers' = wvResetTimers \ {deadline}
    /\ UNCHANGED <<surfVars, fnVars, now, cacheVars, updVars, isScrollingFromEditor, isScrollingFromWebview, scrollTimeout,
                   webviewResetTimers, enableScrollSync, editorLine, editorEvent,
                   wvScrollTimeout, scrollTop, wvScrollEvent, toWebview, toExtension,
                   appliedAt, echoRevealed>>

\* time passes: no timer is overdue and every raised event has been delivered
TickScroll ==
    /\ \A deadline \in hostTimers \cup surfaceTimers : deadline > now
    /\ ~editorEvent /\ ~wvScrollEvent
    /\ now + ScrollTickMs <= MaxTimeScroll
    /\ now' = now + ScrollTickMs
    /\ UNCHANGED <<surfVars, fnVars, cacheVars, scrollVars, updVars>>

ScrollPositions == {0, MaxScroll \div 2, MaxScroll}

\* a preview of FirstDocument is open and its ScrollSyncManager constructed; no
\* update is under way
InitScroll ==
    /\ now = 0
    /\ SurfaceIdle
    /\ NoCall
    /\ newRenderCache(providerOptions)
    /\ ScrollIdle
    /\ panel = TRUE
    /\ currentDocument = FirstDocument
    /\ managerDocument = FirstDocument
    /\ cacheCleanupInterval = TRUE
    /\ UpdateIdle

NextScroll ==
    \/ \E line \in 0..(LineCount - 1) : UserScrollsEditor(line)
    \/ EditorRangesChanged
    \/ ScrollTimeoutFires
    \/ handleWebviewScroll
    \/ \E deadline \in webviewResetTimers : WebviewResetFires(deadline)
    \/ \E value \in BOOLEAN : SetEnableScrollSync(value)
    \/ \E top \in ScrollPositions : UserScrollsPreview(top)
    \/ ContainerScrolled
    \/ WvScrollTimeoutFires
    \/ handleScrollFromEditor
    \/ \E deadline \in wvResetTimers : WvResetFires(deadline)
    \/ TickScroll

SpecScroll == InitScroll /\ [][NextScroll]_vars

\* C2 (as claimed): no 'scroll' message that the surface sends inside the 150 ms
\* suppression window after it applied a 'scrollFromEditor' (a pending debounce
\* timer's message included) makes handleWebviewScroll move the editor.
C2_NoEchoMovesEditor == ~echoRevealed

(***************************************************************************)
(* The surface's document: nodes, serialisation, parsing                   *)
(***************************************************************************)
\* a DOM node; id tells one node object from another, listeners counts the click
\* handlers added to it
elementNode(tag, attrs, children) ==
    [id |-> 0, kind |-> "element", tag |-> tag, attrs |-> attrs, children |-> children,
     value |-> "", listeners |-> 0]

textNode(value) ==
    [id |-> 0, kind |-> "text", tag |-> "", attrs |-> <<>>, children |-> <<>>,
     value |-> value, listeners |-> 0]

\* innerHTML, read: the serialisation of a node list
RECURSIVE serializeAttrs(_)
serializeAttrs(attrs) ==
    IF attrs = <<>> THEN ""
    ELSE " " \o attrs[1][1] \o "=\"" \o attrs[1][2] \o "\"" \o serializeAttrs(Tail(attrs))

RECURSIVE serializeNode(_)
RECURSIVE serializeNodes(_)
serializeNode(node) ==
    IF node.kind = "text" THEN node.value
    ELSE "<" \o node.tag \o serializeAttrs(node.attrs) \o ">"
         \o serializeNodes(node.children) \o "</" \o node.tag \o ">"

serializeNodes(nodes) ==
    IF nodes = <<>> THEN ""
    ELSE serializeNode(Head(nodes)) \o serializeNodes(Tail(nodes))

\* n children that are copies of one node
copies(node, n) == [i \in 1..n |-> node]

\* a paragraph of 40 characters
LongText == "0123456789012345678901234567890123456789"

\* the node lists whose markup the surface is given
ParsedHtml ==
    { <<elementNode("blockquote", <<>>, <<>>)>>,
      <<elementNode("p", <<>>, <<elementNode("b", <<>>, <<>>), textNode(LongText)>>)>>,
      <<elementNode("p", <<>>, copies(elementNode("b", <<>>, <<>>), 12))>>,
      <<elementNode("p", <<>>, copies(elementNode("b", <<>>, <<>>), 13))>>,
      <<elementNode("p", <<>>,
                    <<elementNode("a", <<<<"href", "https://example.com">>>>,
                                  <<textNode("link")>>)>>)>>,
      <<elementNode("p", <<>>, <<textNode("hello wor")>>)>>,
      <<elementNode("p", <<>>, <<textNode("h")>>)>>,
      <<elementNode("p", <<>>, <<textNode("hi")>>)>>,
      <<elementNode("p", <<<<"class", "a">>>>, <<textNode("hello wor"), elementNode("b", <<>>, <<>>)>>)>>,
      <<elementNode("section", <<<<"id", "bm-md">>, <<"style", "ayu-light">>>>,
                    <<elementNode("h1", <<>>, <<textNode("Hello")>>)>>)>>,
      <<elementNode("section", <<<<"id", "bm-md">>, <<"style", "bauhaus">>>>,
                    <<elementNode("h1", <<>>, <<textNode("Hello")>>)>>)>> }

\* innerHTML, assigned: the node list a string parses to; a string without markup
\* is one text node
parseHtml(html) ==
    IF html = "" THEN <<>>
    ELSE IF \E nodes \in ParsedHtml : serializeNodes(nodes) = html
    THEN CHOOSE nodes \in ParsedHtml : serializeNodes(nodes) = html
    ELSE <<textNode(html)>>

\* the nodes of a subtree, of a node list
RECURSIVE nodeCount(_)
RECURSIVE nodesCount(_)
nodeCount(node) == 1 + nodesCount(node.children)

nodesCount(nodes) ==
    IF nodes = <<>> THEN 0 ELSE nodeCount(Head(nodes)) + nodesCount(Tail(nodes))

\* newly created nodes take the identities from base on
RECURSIVE createNode(_, _)
RECURSIVE createNodes(_, _)
createNode(node, base) ==
    [node EXCEPT !.id = base, !.children = createNodes(node.children, base + 1)]

createNodes(nodes, base) ==
    IF nodes = <<>> THEN <<>>
    ELSE <<createNode(Head(nodes), base)>>
         \o createNodes(Tail(nodes), base + nodeCount(Head(nodes)))

\* the identities of the nodes of a node list
RECURSIVE nodeIds(_)
nodeIds(nodes) ==
    IF nodes = <<>> THEN {}
    ELSE {Head(nodes).id} \cup nodeIds(Head(nodes).children) \cup nodeIds(Tail(nodes))

\* a node list without identities and listeners: its structure
RECURSIVE structure(_)
structure(nodes) ==
    [i \in 1..Len(nodes) |->
        [nodes[i] EXCEPT !.id = 0, !.listeners = 0, !.children = structure(@)]]

(***************************************************************************)
(* The surface's script: the patch engine and the message listener         *)
(***************************************************************************)
abs(n) == IF n < 0 THEN 0 - n ELSE n

hasAttribute(attrs, name) == \E i \in 1..Len(attrs) : attrs[i][1] = name

\* setAttribute: the value of an attribute already there is changed in place
setAttribute(attrs, attr) ==
    IF hasAttribute(attrs, attr[1])
    THEN [i \in 1..Len(attrs) |-> IF attrs[i][1] = attr[1] THEN attr ELSE attrs[i]]
    ELSE Append(attrs, attr)

RECURSIVE setAttributes(_, _)
setAttributes(attrs, toAttrs) ==
    IF toAttrs = <<>> THEN attrs
    ELSE setAttributes(setAttribute(attrs, Head(toAttrs)), Tail(toAttrs))

\* morphDom, attributes: those the new node lacks are removed, the others set
morphAttributes(fromAttrs, toAttrs) ==
    setAttributes(SelectSeq(fromAttrs, LAMBDA attr : hasAttribute(toAttrs, attr[1])),
                  toAttrs)

\* mutant: a difference of exactly 10 children already counts
childCountsTenApart(fromChildren, toChildren) ==
    abs(Len(fromChildren) - Len(toChildren)) >= 10

\* Math.abs(fromChildren.length - toChildren.length) > 10
childCountsFarApart(fromChildren, toChildren) ==
    abs(Len(fromChildren) - Len(toChildren)) > 10

\* morphDom(fromNode, toNode): the node at fromNode's place afterwards
RECURSIVE morphDom(_, _)
RECURSIVE morphChildren(_, _)
morphDom(fromNode, toNode) ==
    IF fromNode.kind # toNode.kind THEN toNode
    ELSE IF fromNode.kind = "text" THEN [fromNode EXCEPT !.value = toNode.value]
    ELSE [fromNode EXCEPT !.attrs = morphAttributes(fromNode.attrs, toNode.attrs),
                          !.children = morphChildren(fromNode.children, toNode.children)]

\* morphDom, children: innerHTML taken over when the counts differ by more than
\* 10, else the common positions morphed, new children appended, extra ones removed
morphChildren(fromChildren, toChildren) ==
    IF childCountsFarApart(fromChildren, toChildren) THEN toChildren
    ELSE [i \in 1..Len(toChildren) |->
             IF i <= Len(fromChildren) THEN morphDom(fromChildren[i], toChildren[i])
             ELSE toChildren[i]]

changeRatioReaches(oldLength, newLength) ==
    2 * abs(newLength - oldLength) >= max(oldLength, newLength)

\* changeRatio > 0.5, for lengthDiff / Math.max(oldLength, newLength)
changeRatioExceeds(oldLength, newLength) ==
    2 * abs(newLength - oldLength) > max(oldLength, newLength)

\* updatePreviewContent(html) on #preview with the given attributes and children;
\* temp's nodes are created with the identities from base on
updatePreviewContent(attrs, children, html, base) ==
    LET temp == createNodes(parseHtml(html), base) IN
    IF children = <<>>
    THEN [attrs |-> attrs, children |-> temp, mode |-> "set"]
    ELSE IF changeRatioExceeds(Len(serializeNodes(children)), Len(html))
    THEN [attrs |-> attrs, children |-> temp, mode |-> "replace"]
    ELSE [attrs |-> morphAttributes(attrs, <<>>),
          children |-> morphChildren(children, temp),
          mode |-> "morph"]

\* an external link: href starts with http:// or https://
isExternal(href) ==
    \/ Len(href) >= 7 /\ SubSeq(href, 1, 7) = "http://"
    \/ Len(href) >= 8 /\ SubSeq(href, 1, 8) = "https://"

\* attachLinkHandlers: one more click listener on every a[href] below #preview
RECURSIVE attachLinkHandlers(_)
attachLinkHandlers(nodes) ==
    [i \in 1..Len(nodes) |->
        [nodes[i] EXCEPT
            !.listeners = IF nodes[i].kind = "element" /\ nodes[i].tag = "a"
                             /\ hasAttribute(nodes[i].attrs, "href")
                          THEN @ + 1 ELSE @,
            !.children = attachLinkHandlers(@)]]

\* handleError(message)
handleError(message) ==
    /\ errorText' = message
    /\ errorVisible' = TRUE
    /\ loaded' = TRUE

\* handleUpdate(message.html); a message without html makes html.length throw
\* once #preview has content, and the catch block calls handleError
handleUpdate(message) ==
    IF "html" \in DOMAIN message
    THEN \E patch \in {updatePreviewContent(previewAttrs, previewChildren, message.html,
                                            nextNodeId)} :
            /\ previewAttrs' = patch.attrs
            /\ previewChildren' = attachLinkHandlers(patch.children)
            /\ nextNodeId' = nextNodeId + nodesCount(parseHtml(message.html))
            /\ lastPatch' = [mode |-> patch.mode, html |-> message.html]
            /\ errorVisible' = FALSE
            /\ loaded' = TRUE
            /\ UNCHANGED errorText
    ELSE IF previewChildren = <<>>
    THEN /\ previewChildren' = createNodes(<<textNode("undefined")>>, nextNodeId)
         /\ nextNodeId' = nextNodeId + 1
         /\ lastPatch' = [mode |-> "set", html |-> "undefined"]
         /\ errorVisible' = FALSE
         /\ loaded' = TRUE
         /\ UNCHANGED <<previewAttrs, errorText>>
    ELSE /\ handleError("update failed: cannot read properties of undefined")
         /\ UNCHANGED <<previewAttrs, previewChildren, nextNodeId, lastPatch>>

\* handleConfig(markdownStyle, codeTheme)
handleConfig(message) ==
    selected' = [markdownStyle |-> message.markdownStyle, codeTheme |-> message.codeTheme]

(***************************************************************************)
(* Update path: MarkdownPreviewProvider and the extension's listeners      *)
(***************************************************************************)
Styles == {"ayu-light", "bauhaus"}

\* JSON.stringify's string quoting: the text between double quotes, a double
\* quote or a backslash in it preceded by a backslash
RECURSIVE quoteFrom(_, _)
quoteFrom(str, i) ==
    IF i > Len(str) THEN ""
    ELSE (IF SubSeq(str, i, i) \in {"\"", "\\"} THEN "\\" ELSE "")
         \o SubSeq(str, i, i) \o quoteFrom(str, i + 1)

quote(str) == "\"" \o quoteFrom(str, 1) \o "\""

\* an option value is a record with one field that names its kind: string,
\* boolean, number, null, nan (the number NaN) or undefined
kindOf(value) == CHOOSE kind \in DOMAIN value : TRUE

\* JSON.stringify of a property value: NaN is written as null
stringifyValue(value) ==
    CASE kindOf(value) = "string" -> quote(value.string)
      [] kindOf(value) = "boolean" -> IF value.boolean THEN "true" ELSE "false"
      [] kindOf(value) = "number" -> ToString(value.number)
      [] OTHER -> "null"

\* JSON.stringify of an object: its properties in insertion order, a property
\* whose value is undefined left out
RECURSIVE stringifyProperties(_, _, _)
stringifyProperties(properties, i, separator) ==
    IF i > Len(properties) THEN ""
    ELSE IF kindOf(properties[i].value) = "undefined"
    THEN stringifyProperties(properties, i + 1, separator)
    ELSE separator \o quote(properties[i].name) \o ":"
         \o stringifyValue(properties[i].value)
         \o stringifyProperties(properties, i + 1, ",")

stringifyObject(properties) == "{" \o stringifyProperties(properties, 1, "") \o "}"

property(name, value) == [name |-> name, value |-> value]

\* the options object doUpdatePreview passes to generateKey (customCss is left
\* at its default)
keyOptions(style, theme) ==
    <<property("markdownStyle", [string |-> style]),
      property("codeTheme", [string |-> theme]),
      property("customCss", [string |-> ""]),
      property("enableFootnoteLinks", [boolean |-> TRUE]),
      property("openLinksInNewWindow", [boolean |-> TRUE]),
      property("platform", [string |-> "html"])>>

\* crypto.createHash('sha256').update(content).digest('hex'): the digest is
\* written as its input under a tag (distinct inputs, distinct digests)
sha256(content) == "sha256:" \o content

\* RenderCache.generateKey: the SHA-256 digest of JSON.stringify({markdown, options})
generateKey(markdown, options) ==
    sha256("{\"markdown\":" \o quote(markdown)
           \o ",\"options\":" \o stringifyObject(options) \o "}")

\* MarkdownEngine.isValidMarkdown: markdown.trim().length > 0 (no text of Texts
\* is made of white space only)
isValidMarkdown(markdown) == Len(markdown) > 0

\* what the unified processor makes of the texts of Texts
processMarkdown(markdown) ==
    CASE markdown = "# Hello" -> "<h1>Hello</h1>"
      [] markdown = "[a]: b" -> ""
      [] OTHER -> ""

\* render(options): the processed text as it is when neither a style nor a theme
\* is set, else wrapped in the section with the style inlined
renderHtml(markdown, style, theme) ==
    IF style = "" /\ theme = ""
    THEN processMarkdown(markdown)
    ELSE "<section id=\"bm-md\" style=\"" \o style \o "\">"
         \o processMarkdown(markdown) \o "</section>"

\* the message MarkdownEngine.render rejects with
renderError == "Markdown render failed: content is empty or invalid"

\* the newest doUpdatePreview invocation started so far
newest == started[Len(started)]

\* an invocation is superseded once a later one has started from another text or
\* other options
isSuperseded(r) ==
    /\ r.generation < Len(started)
    /\ <<r.markdown, r.style>> # <<newest.markdown, newest.style>>

updateMessage(html, generation, superseded) ==
    [type |-> "update", body |-> html, generation |-> generation,
     superseded |-> superseded]

errorMessage(message, generation, superseded) ==
    [type |-> "error", body |-> message, generation |-> generation,
     superseded |-> superseded]

\* MessageSender.createUpdateMessage, createErrorMessage, createConfigMessage
createUpdateMessage(html) == [type |-> "update", html |-> html]
createErrorMessageAsUpdate(message) == [type |-> "update", html |-> message]
createErrorMessage(message) == [type |-> "error", message |-> message]
createConfigMessage(style, theme) ==
    [type |-> "config", markdownStyle |-> style, codeTheme |-> theme]

\* this.panel.webview.postMessage(message)
postMessage(message) == toWebview' = Append(toWebview, message)

updateTimers ==
    (IF updateTimeout = NoTimer THEN {} ELSE {updateTimeout})
    \cup (IF debounceTimeout.deadline = NoTimer THEN {} ELSE {debounceTimeout.deadline})

\* updatePreview(document) with this.panel = hasPanel and this.currentDocument =
\* current; document is NoDocument when the argument is left out
updatePreview(document, hasPanel, current) ==
    IF document # NoDocument /\ current # NoDocument /\ document # current
    THEN UNCHANGED updateTimeout
    ELSE IF ~hasPanel \/ current = NoDocument
    THEN UNCHANGED updateTimeout
    ELSE updateTimeout' = now + UpdateDebounceMs

\* the interceptor doUpdatePreview assigns to console.warn in invocation
\* generation: a closure that looks at the message and calls originalWarn
interceptor(generation, originalWarn) == <<generation>> \o originalWarn

\* doUpdatePreview() up to its first await, with this.panel = hasPanel and
\* this.currentDocument = current: on a cache hit the update is posted at once,
\* on a miss the render is started
doUpdatePreview(hasPanel, current) ==
    IF ~hasPanel \/ current = NoDocument
    THEN UNCHANGED <<cache, currentMemorySize, lastOp, streak, renders, started, lastPosted,
                     toWebview, consoleWarn>>
    ELSE \E markdown \in {docText[current]} :
         \E key \in {generateKey(markdown, keyOptions(markdownStyle, codeTheme))} :
         \E r \in {getResult(cache, currentMemorySize, key, now)} :
            /\ cache' = r.cache
            /\ currentMemorySize' = r.mem
            /\ lastOp' = opRecord("get", lookupStatus(cache, key, now),
                                  lookupCount(cache, key, now))
            /\ streak' = streakAfterOther(r.cache)
            /\ started' = Append(started, [markdown |-> markdown, style |-> markdownStyle])
            /\ IF r.ret # <<>> /\ r.ret[1] # ""
               THEN /\ lastPosted' = updateMessage(r.ret[1], Len(started) + 1, FALSE)
                    /\ postMessage(createUpdateMessage(r.ret[1]))
                    /\ UNCHANGED <<renders, consoleWarn>>
               ELSE /\ renders' = renders \cup
                           {[generation |-> Len(started) + 1, key |-> key,
                             markdown |-> markdown, style |-> markdownStyle,
                             theme |-> codeTheme, originalWarn |-> consoleWarn]}
                    /\ consoleWarn' = interceptor(Len(started) + 1, consoleWarn)
                    /\ UNCHANGED <<lastPosted, toWebview>>

\* new ScrollSyncManager(panel, document), the old one disposed: fresh flags, the
\* debounce timer cleared
newScrollSyncManager(document) ==
    /\ managerDocument' = document
    /\ isScrollingFromEditor' = FALSE
    /\ isScrollingFromWebview' = FALSE
    /\ scrollTimeout' = NoTimer

\* the scroll state a new manager leaves as it is
scrollVarsKept ==
    <<webviewResetTimers, enableScrollSync, editorLine, editorEvent, wvIsScrollingFromEditor,
      wvScrollTimeout, wvResetTimers, scrollTop, wvScrollEvent, toExtension,
      appliedAt, echoRevealed>>

\* the scroll state the update path leaves as it is when it posts to the surface
scrollVarsNotPosted ==
    <<isScrollingFromEditor, isScrollingFromWebview, scrollTimeout, scrollVarsKept>>

\* one more user event; the surface has handled what was posted to it before
userEvent ==
    /\ userEvents < MaxUserEvents
    /\ toWebview = <<>>
    /\ userEvents' = userEvents + 1

\* createWebviewPanel and webview.html = getWebviewContent(...): a new surface
\* loads, with an empty #preview and nothing received yet
loadSurface ==
    /\ previewAttrs' = <<<<"id", "preview">>>>
    /\ previewChildren' = <<>>
    /\ errorVisible' = FALSE
    /\ errorText' = ""
    /\ loaded' = FALSE
    /\ selected' = [markdownStyle |-> "ayu-light", codeTheme |-> "andromeeda"]
    /\ nextNodeId' = 1
    /\ lastPatch' = [mode |-> "none"]
    /\ toWebview' = <<>>

\* MarkdownPreviewProvider.showPreview(document)
showPreview(document) ==
    /\ userEvent
    /\ currentDocument' = document
    /\ IF panel
       THEN UNCHANGED <<panel, readyStage, managerDocument, isScrollingFromEditor,
                        isScrollingFromWebview, scrollTimeout, surfVars, toWebview>>
       ELSE /\ panel' = TRUE
            /\ readyStage' = readyStage \cup {"sent"}
            /\ newScrollSyncManager(document)
            /\ loadSurface
    /\ updatePreview(NoDocument, TRUE, document)
    /\ UNCHANGED <<fnVars, now, cacheVars, scrollVarsKept, cacheCleanupInterval, debounceTimeout,
                   docText, markdownStyle, codeTheme, renders, started, lastPosted, notifications,
                   rejected, consoleWarn, activeDocument>>

\* command bmmd.showPreview: showPreview(editor.document) for the active editor
showPreviewCommand == showPreview(activeDocument)

\* onDidChangeTextDocument for a markdown document whose text becomes text
changeDocumentListener(document, text) ==
    /\ userEvent
    /\ text # docText[document]
    /\ docText' = [docText EXCEPT ![document] = text]
    /\ debounceTimeout' = [deadline |-> now + ChangeDebounceMs, document |-> document]
    /\ UNCHANGED <<surfVars, fnVars, now, cacheVars, scrollVars, panel, currentDocument, managerDocument,
                   cacheCleanupInterval, updateTimeout, markdownStyle, codeTheme, readyStage, renders,
                   started, lastPosted, notifications, rejected, consoleWarn, activeDocument>>

\* the extension's timer: previewProvider.updatePreview(event.document)
DebounceTimeoutFires ==
    /\ debounceTimeout.deadline # NoTimer
    /\ fires(debounceTimeout.deadline, updateTimers)
    /\ debounceTimeout' = [deadline |-> NoTimer, document |-> NoDocument]
    /\ updatePreview(debounceTimeout.document, panel, currentDocument)
    /\ UNCHANGED <<surfVars, fnVars, now, cacheVars, scrollVars, panel, currentDocument, managerDocument,
                   cacheCleanupInterval, docText, markdownStyle, codeTheme, readyStage, renders,
                   started, lastPosted, notifications, rejected, consoleWarn, activeDocument,
                   userEvents>>

\* onDidChangeConfiguration after bmmd.markdownStyle was set to style
changeConfigurationListener(style) ==
    /\ userEvent
    /\ style # markdownStyle
    /\ markdownStyle' = style
    /\ UNCHANGED codeTheme
    /\ updatePreview(NoDocument, panel, currentDocument)
    /\ UNCHANGED <<surfVars, fnVars, now, cacheVars, scrollVars, panel, currentDocument, managerDocument,
                   cacheCleanupInterval, debounceTimeout, docText, readyStage, renders,
                   started, lastPosted, notifications, rejected, consoleWarn, activeDocument>>

\* the provider's timer: doUpdatePreview()
UpdateTimeoutFires ==
    /\ updateTimeout # NoTimer
    /\ fires(updateTimeout, updateTimers)
    /\ Len(started) < MaxRenders
    /\ updateTimeout' = NoTimer
    /\ doUpdatePreview(panel, currentDocument)
    /\ UNCHANGED <<surfVars, fnVars, now, hung, cacheOptions, scrollVarsNotPosted, panel, currentDocument,
                   managerDocument, cacheCleanupInterval, debounceTimeout, docText,
                   markdownStyle, codeTheme, readyStage, notifications, rejected, activeDocument,
                   userEvents>>

\* handleWebviewMessage({type: 'ready'}) up to the await of sendCurrentConfig()
ReadyReceived ==
    /\ "sent" \in readyStage
    /\ readyStage' = (readyStage \ {"sent"}) \cup {"config"}
    /\ IF panel
       THEN postMessage(createConfigMessage(markdownStyle, codeTheme))
       ELSE UNCHANGED toWebview
    /\ UNCHANGED <<surfVars, fnVars, now, cacheVars, scrollVarsNotPosted, panel, currentDocument, managerDocument,
                   cacheCleanupInterval, updateTimeout, debounceTimeout, docText,
                   markdownStyle, codeTheme, renders, started, lastPosted, notifications, rejected, consoleWarn,
                   activeDocument,
                   userEvents>>

\* ... and from there: doUpdatePreview()
ReadyContinues ==
    /\ "config" \in readyStage
    /\ Len(started) < MaxRenders
    /\ readyStage' = readyStage \ {"config"}
    /\ doUpdatePreview(panel, currentDocument)
    /\ UNCHANGED <<surfVars, fnVars, now, hung, cacheOptions, scrollVarsNotPosted, panel, currentDocument,
                   managerDocument, cacheCleanupInterval, updateTimeout, debounceTimeout,
                   docText, markdownStyle, codeTheme, notifications, rejected, activeDocument,
                   userEvents>>

\* onDidChangeActiveTextEditor for a markdown editor: switchDocument(editor.document)
changeActiveEditorListener(document) ==
    /\ userEvent
    /\ document # activeDocument
    /\ activeDocument' = document
    /\ IF ~panel
       THEN UNCHANGED <<cache, currentMemorySize, lastOp, streak, renders, started,
                        lastPosted, currentDocument, managerDocument,
                        isScrollingFromEditor, isScrollingFromWebview, scrollTimeout,
                        toWebview, consoleWarn>>
       ELSE /\ Len(started) < MaxRenders
            /\ currentDocument' = document
            /\ newScrollSyncManager(document)
            /\ doUpdatePreview(TRUE, document)
    /\ UNCHANGED <<surfVars, fnVars, now, hung, cacheOptions, scrollVarsKept, panel, cacheCleanupInterval,
                   updateTimeout, debounceTimeout, docText, markdownStyle, codeTheme, readyStage,
                   notifications, rejected>>

\* MarkdownEngine.render resolves for invocation r and doUpdatePreview goes on:
\* cache.set, then postMessage on this.panel; without a panel that throws, and so
\* does the postMessage of the catch block
RenderResolves(r) ==
    /\ r \in renders
    /\ isValidMarkdown(r.markdown)
    /\ renders' = renders \ {r}
    /\ consoleWarn' = r.originalWarn
    /\ \E html \in {renderHtml(r.markdown, r.style, r.theme)} :
       \E res \in {setResult(cache, currentMemorySize, r.key, html, now)} :
          /\ cache' = res.cache
          /\ currentMemorySize' = res.mem
          /\ hung' = (res.status = "hang")
          /\ lastOp' = opRecord("set", res.status, Len(res.evicted))
          /\ streak' = streakAfterSet(r.key, html)
          /\ IF panel
             THEN /\ lastPosted' = updateMessage(html, r.generation, isSuperseded(r))
                  /\ postMessage(createUpdateMessage(html))
                  /\ UNCHANGED rejected
             ELSE /\ rejected' = TRUE
                  /\ UNCHANGED <<lastPosted, toWebview>>
    /\ UNCHANGED <<surfVars, fnVars, now, cacheOptions, scrollVarsNotPosted, panel, currentDocument, managerDocument,
                   cacheCleanupInterval, updateTimeout, debounceTimeout, docText,
                   markdownStyle, codeTheme, readyStage, started, notifications, activeDocument,
                   userEvents>>

\* MarkdownEngine.render rejects for invocation r: the catch block posts 'error'
\* and calls showErrorMessage; without a panel its postMessage throws
RenderRejects(r) ==
    /\ r \in renders
    /\ ~isValidMarkdown(r.markdown)
    /\ renders' = renders \ {r}
    /\ consoleWarn' = r.originalWarn
    /\ IF panel
       THEN /\ lastPosted' = errorMessage(renderError, r.generation, isSuperseded(r))
            /\ postMessage(createErrorMessage(renderError))
            /\ notifications' = notifications + 1
            /\ UNCHANGED rejected
       ELSE /\ rejected' = TRUE
            /\ UNCHANGED <<lastPosted, notifications, toWebview>>
    /\ UNCHANGED <<surfVars, fnVars, now, cacheVars, scrollVarsNotPosted, panel, currentDocument, managerDocument,
                   cacheCleanupInterval, updateTimeout, debounceTimeout, docText,
                   markdownStyle, codeTheme, readyStage, started, activeDocument,
                   userEvents>>

\* the user closes the panel: onDidDispose calls dispose(); the surface is
\* destroyed with the panel, its timers and the messages under way with it
dispose ==
    /\ userEvent
    /\ panel
    /\ updateTimeout' = NoTimer
    /\ cacheCleanupInterval' = FALSE
    /\ managerDocument' = NoDocument
    /\ scrollTimeout' = NoTimer
    /\ cache' = <<>>
    /\ currentMemorySize' = 0
    /\ lastOp' = opRecord("clear", "ok", Len(cache))
    /\ streak' = streakAfterOther(<<>>)
    /\ panel' = FALSE
    /\ currentDocument' = NoDocument
    /\ readyStage' = readyStage \ {"sent"}
    /\ toWebview' = <<>>
    /\ toExtension' = <<>>
    /\ wvScrollTimeout' = NoTimer
    /\ wvResetTimers' = {}
    /\ wvScrollEvent' = FALSE
    /\ UNCHANGED <<surfVars, fnVars, now, hung, cacheOptions, isScrollingFromEditor, isScrollingFromWebview,
                   webviewResetTimers, enableScrollSync, editorLine, editorEvent,
                   wvIsScrollingFromEditor, scrollTop, appliedAt, echoRevealed, debounceTimeout, docText, markdownStyle, codeTheme, renders,
                   started, lastPosted, notifications, rejected, consoleWarn, activeDocument>>

\* the 'message' listener, case 'update': handleUpdate(message.html)
ReceiveUpdate ==
    /\ toWebview # <<>>
    /\ Head(toWebview).type = "update"
    /\ toWebview' = Tail(toWebview)
    /\ handleUpdate(Head(toWebview))
    /\ UNCHANGED <<selected, fnVars, now, cacheVars, scrollVarsNotPosted, updVars>>

\* the 'message' listener, case 'error': handleError(message.message)
ReceiveError ==
    /\ toWebview # <<>>
    /\ Head(toWebview).type = "error"
    /\ toWebview' = Tail(toWebview)
    /\ handleError(IF "message" \in DOMAIN Head(toWebview)
                   THEN Head(toWebview).message ELSE "")
    /\ UNCHANGED <<previewAttrs, previewChildren, selected, nextNodeId, lastPatch, fnVars,
                   now, cacheVars, scrollVarsNotPosted, updVars>>

\* the 'message' listener, case 'config': handleConfig(markdownStyle, codeTheme)
ReceiveConfig ==
    /\ toWebview # <<>>
    /\ Head(toWebview).type = "config"
    /\ toWebview' = Tail(toWebview)
    /\ handleConfig(Head(toWebview))
    /\ UNCHANGED <<previewAttrs, previewChildren, errorVisible, errorText, loaded,
                   nextNodeId, lastPatch, fnVars, now, cacheVars, scrollVarsNotPosted,
                   updVars>>

\* time passes: no timer of the update path is overdue and the surface has
\* handled what was posted to it
TickUpdate ==
    /\ \A deadline \in updateTimers : deadline > now
    /\ toWebview = <<>>
    /\ now + UpdateTickMs <= MaxTimeUpdate
    /\ now' = now + UpdateTickMs
    /\ UNCHANGED <<surfVars, fnVars, cacheVars, scrollVars, updVars>>

\* after activate(): the provider constructed, no preview open
InitUpdate ==
    /\ now = 0
    /\ SurfaceIdle
    /\ NoCall
    /\ newRenderCache(providerOptions)
    /\ ScrollIdle
    /\ ProviderIdle
    /\ cacheCleanupInterval = TRUE

NextUpdate ==
    \/ showPreviewCommand
    \/ \E document \in Documents, text \in Texts : changeDocumentListener(document, text)
    \/ DebounceTimeoutFires
    \/ \E style \in Styles : changeConfigurationListener(style)
    \/ UpdateTimeoutFires
    \/ ReadyReceived
    \/ ReadyContinues
    \/ \E document \in Documents : changeActiveEditorListener(document)
    \/ \E r \in renders : RenderResolves(r)
    \/ \E r \in renders : RenderRejects(r)
    \/ dispose
    \/ ReceiveUpdate
    \/ ReceiveError
    \/ ReceiveConfig
    \/ TickUpdate

SpecUpdate == InitUpdate /\ [][NextUpdate]_vars

\* C1 (as claimed): a result that belongs to a superseded generation is discarded;
\* the last 'update' posted to the surface was never rendered from a snapshot
\* older than one a newer doUpdatePreview invocation had already started from.
C1_NoSupersededUpdatePosted == lastPosted.type = "update" => ~lastPosted.superseded

\* C10 (as claimed): at every moment at most one update timer is pending for the
\* active document across the change-notification path, the extension's
\* debounceTimeout and the provider's updateTimeout taken together.
C10_AtMostOnePendingTimer ==
    ~(/\ panel
      /\ debounceTimeout.deadline # NoTimer
      /\ debounceTimeout.document = currentDocument
      /\ updateTimeout # NoTimer)

\* C11 (as claimed): switchDocument cancels the pending update timer armed for the
\* old document and starts the render for the new document at once: after the
\* active-editor listener ran with a preview open, no updateTimeout is pending and
\* one more doUpdatePreview invocation has started.
C11_SwitchCancelsTimer ==
    [][(panel /\ activeDocument' # activeDocument)
          => (updateTimeout' = NoTimer /\ Len(started') = Len(started) + 1)]_vars


\* the step in which MarkdownEngine.render rejects for an invocation while the
\* preview is open
renderFailsStep ==
    /\ panel
    /\ \E r \in renders : r \notin renders' /\ ~isValidMarkdown(r.markdown)

\* the step in which the surface handles the next message, an 'error'
errorHandledStep ==
    /\ toWebview # <<>>
    /\ Head(toWebview).type = "error"
    /\ toWebview' = Tail(toWebview)
    /\ panel'

LoneDefinition == "[a]: b"
ValidTexts == {FirstText, LoneDefinition}

\* values of bmmd.markdownStyle and bmmd.codeTheme; a setting may be left empty
StyleSettings == {"", "ayu-light"}
ThemeSettings == {"", "kimbie-light"}

\* after activate(), the documents holding one of the texts and the
\* configuration one of the option sets
InitRerender ==
    /\ now = 0
    /\ SurfaceIdle
    /\ NoCall
    /\ newRenderCache(providerOptions)
    /\ ScrollIdle
    /\ panel = FALSE
    /\ currentDocument = NoDocument
    /\ managerDocument = NoDocument
    /\ cacheCleanupInterval = TRUE
    /\ \E text \in ValidTexts, style \in StyleSettings, theme \in ThemeSettings :
          UpdateIdleWith(text, style, theme)

\* the preview is shown, again and again, over the unchanged text and options
NextRerender ==
    \/ showPreviewCommand
    \/ UpdateTimeoutFires
    \/ ReadyReceived
    \/ ReadyContinues
    \/ \E r \in renders : RenderResolves(r)
    \/ ReceiveUpdate
    \/ ReceiveConfig
    \/ TickUpdate

SpecRerender == InitRerender /\ [][NextRerender]_vars

\* the key of the current document's text under the current options
currentKey ==
    generateKey(docText[currentDocument], keyOptions(markdownStyle, codeTheme))

\* an earlier cycle rendered the current text and options, and its entry is still
\* stored and has not expired
renderedBefore ==
    /\ panel
    /\ currentDocument # NoDocument
    /\ lookupStatus(cache, currentKey, now) = "hit"

\* a step in which doUpdatePreview is invoked
updateCycleStep == Len(started') = Len(started) + 1

\* C13 (as claimed): an update cycle over a text and option set whose entry is
\* stored and unexpired is a cache hit, whatever HTML the first render returned:
\* the entry's accessCount goes up by one and MarkdownEngine.render is not invoked.
C13_RerenderIsCacheHit ==
    [][(renderedBefore /\ updateCycleStep)
          => /\ renders' = renders
             /\ indexOf(cache', currentKey) # 0
             /\ cache'[indexOf(cache', currentKey)].accessCount
                  = cache[indexOf(cache, currentKey)].accessCount + 1]_vars


(***************************************************************************)
(* Inbound messages: MessageValidator and the two receiving sides          *)
(***************************************************************************)
\* the kinds the surface's listener has a case for
SurfaceKinds == {"update", "error", "scrollFromEditor", "config"}

\* what may reach the surface: a message of every kind as MessageSender makes
\* it, an 'update' and an 'error' that lack their field, and an unknown kind
ToSurfaceMessages ==
    {createUpdateMessage("<p>hi</p>"),
     createErrorMessage(renderError),
     createConfigMessage("bauhaus", "kimbie-light"),
     [type |-> "scrollFromEditor", percent |-> [num |-> 1, den |-> 2], line |-> 1],
     [type |-> "update"],
     [type |-> "error"],
     [type |-> "reload"]}

\* what may reach the extension: 'scroll' and 'error' as the surface makes them,
\* a 'scroll' without percent, a 'scroll' whose percent is a string, an 'error'
\* without message, and an unknown kind
ToExtensionMessages ==
    {[type |-> "scroll", percent |-> [num |-> 1, den |-> 2], line |-> NoLine, echo |-> FALSE],
     [type |-> "error", message |-> "render failed"],
     [type |-> "scroll", line |-> NoLine, echo |-> FALSE],
     [type |-> "scroll", percent |-> [num |-> 1, den |-> 2], line |-> NoLine, echo |-> FALSE,
      typeof |-> [percent |-> "string"]],
     [type |-> "error"],
     [type |-> "reload"]}

\* a message event is queued for the surface's listener
MessageToSurface(message) ==
    /\ userEvent
    /\ toExtension = <<>>
    /\ toWebview' = Append(toWebview, message)
    /\ UNCHANGED <<surfVars, fnVars, now, cacheVars, scrollVarsNotPosted, panel,
                   currentDocument, managerDocument, cacheCleanupInterval, updateTimeout,
                   debounceTimeout, docText, markdownStyle, codeTheme, readyStage, renders,
                   started, lastPosted, notifications, rejected, consoleWarn, activeDocument>>

\* onDidReceiveMessage is raised with message
MessageToExtension(message) ==
    /\ userEvent
    /\ toExtension = <<>>
    /\ toExtension' = Append(toExtension, message)
    /\ UNCHANGED <<surfVars, fnVars, now, cacheVars, isScrollingFromEditor,
                   isScrollingFromWebview, scrollTimeout, webviewResetTimers,
                   enableScrollSync, editorLine, editorEvent, wvIsScrollingFromEditor,
                   wvScrollTimeout, wvResetTimers, scrollTop, wvScrollEvent, toWebview,
                   appliedAt, echoRevealed, panel, currentDocument, managerDocument,
                   cacheCleanupInterval, updateTimeout, debounceTimeout, docText,
                   markdownStyle, codeTheme, readyStage, renders, started, lastPosted,
                   notifications, rejected, consoleWarn, activeDocument>>

\* the 'message' listener, default: console.warn
ReceiveUnknown ==
    /\ toWebview # <<>>
    /\ Head(toWebview).type \notin SurfaceKinds
    /\ toWebview' = Tail(toWebview)
    /\ UNCHANGED <<surfVars, fnVars, now, cacheVars, scrollVarsNotPosted, updVars>>

\* handleWebviewMessage(message) for a message the validator turns down:
\* console.warn and return
handleWebviewMessageInvalid ==
    /\ toExtension # <<>>
    /\ ~isWebviewToExtensionMessage(Head(toExtension))
    /\ toExtension' = Tail(toExtension)
    /\ UNCHANGED <<surfVars, fnVars, now, cacheVars, updVars, isScrollingFromEditor,
                   isScrollingFromWebview, scrollTimeout, webviewResetTimers,
                   enableScrollSync, editorLine, editorEvent, wvIsScrollingFromEditor,
                   wvScrollTimeout, wvResetTimers, scrollTop, wvScrollEvent, toWebview,
                   appliedAt, echoRevealed>>

\* handleWebviewMessage(message), case 'error': showErrorMessage
handleWebviewMessageError ==
    /\ toExtension # <<>>
    /\ isWebviewToExtensionMessage(Head(toExtension))
    /\ Head(toExtension).type = "error"
    /\ toExtension' = Tail(toExtension)
    /\ notifications' = notifications + 1
    /\ UNCHANGED <<surfVars, fnVars, now, cacheVars, isScrollingFromEditor,
                   isScrollingFromWebview, scrollTimeout, webviewResetTimers,
                   enableScrollSync, editorLine, editorEvent, wvIsScrollingFromEditor,
                   wvScrollTimeout, wvResetTimers, scrollTop, wvScrollEvent, toWebview,
                   appliedAt, echoRevealed, panel, currentDocument, managerDocument,
                   cacheCleanupInterval, updateTimeout, debounceTimeout, docText,
                   markdownStyle, codeTheme, readyStage, renders, started, lastPosted,
                   rejected, consoleWarn, activeDocument, userEvents>>

\* a preview of FirstDocument is open, nothing received or posted yet
InitMessages == InitScroll

NextMessages ==
    \/ \E message \in ToSurfaceMessages : MessageToSurface(message)
    \/ \E message \in ToExtensionMessages : MessageToExtension(message)
    \/ ReceiveUpdate
    \/ ReceiveError
    \/ ReceiveConfig
    \/ handleScrollFromEditor
    \/ ReceiveUnknown
    \/ handleWebviewScroll
    \/ handleWebviewMessageError
    \/ handleWebviewMessageInvalid

SpecMessages == InitMessages /\ [][NextMessages]_vars

\* the state of the surface: its document and its scroll script
surfaceState ==
    <<surfVars, wvIsScrollingFromEditor, wvScrollTimeout, wvResetTimers, scrollTop,
      wvScrollEvent, appliedAt>>

\* the state of the extension side
extensionState ==
    <<cacheVars, updVars, isScrollingFromEditor, isScrollingFromWebview, scrollTimeout,
      webviewResetTimers, enableScrollSync, editorLine, editorEvent>>

\* C14 (as claimed): in both directions an inbound message is checked against its
\* kind's required fields before a handler runs: the step that takes a message of
\* unknown kind, or with a missing or wrongly typed required field, changes
\* nothing on the receiving side.
C14_InvalidMessageChangesNothing ==
    [][/\ (/\ toWebview # <<>>
           /\ toWebview' = Tail(toWebview)
           /\ ~isExtensionToWebviewMessage(Head(toWebview)))
          => surfaceState' = surfaceState
       /\ (/\ toExtension # <<>>
           /\ toExtension' = Tail(toExtension)
           /\ ~isWebviewToExtensionMessage(Head(toExtension)))
          => extensionState' = extensionState]_vars


\* the latest of a set of deadlines
latest(timers) == CHOOSE deadline \in timers : \A other \in timers : other <= deadline

\* less than ScrollQuietMs have passed since handleWebviewScroll last moved the
\* editor: the release timer it started then is not due yet
inEditorQuietPeriod == webviewResetTimers # {} /\ now < latest(webviewResetTimers)

\* C15 (as claimed): after a scroll was applied mechanically the suppression flag
\* of that side stays set for the whole quiet period of ScrollQuietMs after the
\* most recent applied scroll, also when several are applied less than that
\* apart; the quiet period is longer than the other direction's debounce.
C15_FlagHeldThroughQuietPeriod ==
    /\ ScrollQuietMs > ScrollDebounceMs
    /\ inSuppressionWindow => wvIsScrollingFromEditor
    /\ inEditorQuietPeriod => isScrollingFromWebview


(***************************************************************************)
(* Scroll synchronisation until the preview is closed                      *)
(***************************************************************************)
NextDispose ==
    \/ NextScroll
    \/ dispose

SpecDispose == InitScroll /\ [][NextDispose]_vars

\* a step in which a timer of the provider or of its ScrollSyncManager fires:
\* the update timer, the editor-scroll debounce timer, or a release timer
timerFiresStep ==
    \/ updateTimeout # NoTimer /\ updateTimeout' = NoTimer /\ panel' = panel
    \/ scrollTimeout # NoTimer /\ scrollTimeout' = NoTimer /\ panel' = panel
    \/ \E deadline \in webviewResetTimers : deadline \notin webviewResetTimers'

\* C16 (as claimed): once dispose() has returned no timer the component created
\* fires any more: none of the update timer, the cleanup interval, the
\* editor-scroll debounce timer and the release timers of the suppression flag.
C16_NoTimerAfterDispose ==
    [][~panel => (~timerFiresStep /\ ~cacheCleanupInterval)]_vars


(***************************************************************************)
(* The patch engine under successive updates                               *)
(***************************************************************************)
\* the html of the updates: every fragment the parser knows, and a plain text
PatchHtmls == {serializeNodes(nodes) : nodes \in ParsedHtml} \cup {"hello world"}

NextSurface ==
    \/ \E html \in PatchHtmls : MessageToSurface(createUpdateMessage(html))
    \/ ReceiveUpdate

SpecSurface == InitScroll /\ [][NextSurface]_vars

\* the step in which handleUpdate(html) runs for the next message
handleUpdateStep(html) ==
    /\ toWebview # <<>>
    /\ Head(toWebview) = [type |-> "update", html |-> html]
    /\ toWebview' = Tail(toWebview)

\* C17 (as claimed): the patch engine is idempotent: when handleUpdate runs with
\* the html the update before it ran with, the tree below #preview after this
\* second application is the tree after the first.
C17_SecondApplicationChangesNothing ==
    [][\A html \in PatchHtmls :
          (/\ handleUpdateStep(html)
           /\ lastPatch.mode # "none"
           /\ lastPatch.html = html)
          => structure(previewChildren') = structure(previewChildren)]_vars


\* handleUpdate(html) runs on a surface that is not empty
patchStep(html) == handleUpdateStep(html) /\ previewChildren # <<>>

\* the length-change ratio of html against the content of #preview is above 1/2
ratioAboveHalf(html) ==
    2 * abs(Len(html) - Len(serializeNodes(previewChildren)))
        > max(Len(html), Len(serializeNodes(previewChildren)))

\* every node of the old content is gone
oldNodesDiscarded == nodeIds(previewChildren') \cap nodeIds(previewChildren) = {}

\* the positions old and new content have in common
commonPositions(html) == 1..min(Len(previewChildren), Len(parseHtml(html)))

LongDocument == 101
LineCounts == {1, 2, 3, LongDocument}

\* scroll fractions, some outside [0, 1]
Percents ==
    {percentOf(0 - 1, 2), percentOf(0, 1), percentOf(1, 3), percentOf(1, 2),
     percentOf(2, 3), percentOf(1, 1), percentOf(3, 2)}

\* explicit lines, some outside the document; NoLine when none is supplied
ExplicitLines == {0 - 3, 0, 1, 2, 50, 100, 200}

ScrollCalls ==
    [fn : {"handleWebviewScroll"}, percent : Percents,
     line : ExplicitLines \cup {NoLine}, totalLines : LineCounts]

SyncCalls ==
    {[fn |-> "syncWebviewScroll", line |-> line, totalLines |-> totalLines] :
        line \in {0, 1, 2, 50, 100}, totalLines \in LineCounts}

\* 'scrollFromEditor' messages with every pairing of fraction and line; two of
\* them are handled from the same scroll position
EditorScrolls ==
    [percent : {percent \in Percents : 0 <= percent.num /\ percent.num <= percent.den},
     line : 0..(LineCount - 1)]

SurfaceCalls == [fn : {"handleScrollFromEditor"}, first : EditorScrolls, second : EditorScrolls]

\* a preview of FirstDocument is open; one call with its arguments is chosen
InitFunctions ==
    /\ now = 0
    /\ SurfaceIdle
    /\ newRenderCache(providerOptions)
    /\ ScrollIdle
    /\ panel = TRUE
    /\ currentDocument = FirstDocument
    /\ managerDocument = FirstDocument
    /\ cacheCleanupInterval = TRUE
    /\ UpdateIdle
    /\ input \in ScrollCalls \cup {call \in SyncCalls : call.line < call.totalLines}
                  \cup SurfaceCalls
    /\ output = NoOutput

\* handleWebviewScroll(percent, line) computes the line to reveal
callHandleWebviewScroll ==
    /\ output = NoOutput
    /\ input.fn = "handleWebviewScroll"
    /\ output' = [fn |-> input.fn,
                  value |-> targetLine(input.percent, input.line, input.totalLines)]
    /\ UNCHANGED <<now, cacheVars, scrollVars, updVars, surfVars, input>>

\* syncWebviewScroll(editor) builds the message it posts
callSyncWebviewScroll ==
    /\ output = NoOutput
    /\ input.fn = "syncWebviewScroll"
    /\ output' = [fn |-> input.fn,
                  value |-> syncWebviewScroll(input.line, input.totalLines)]
    /\ UNCHANGED <<now, cacheVars, scrollVars, updVars, surfVars, input>>

\* the surface's handleScrollFromEditor(percent, line) assigns container.scrollTop
callHandleScrollFromEditor ==
    /\ output = NoOutput
    /\ input.fn = "handleScrollFromEditor"
    /\ output' = [fn |-> input.fn,
                  first |-> targetScroll(input.first.percent, MaxScroll),
                  second |-> targetScroll(input.second.percent, MaxScroll)]
    /\ UNCHANGED <<now, cacheVars, scrollVars, updVars, surfVars, input>>

NextFunctions ==
    \/ callHandleWebviewScroll
    \/ callSyncWebviewScroll
    \/ callHandleScrollFromEditor

SpecFunctions == InitFunctions /\ [][NextFunctions]_vars

\* value is floor(percent * (totalLines - 1))
isFloorOfProduct(value, percent, totalLines) ==
    /\ value * percent.den <= percent.num * (totalLines - 1)
    /\ percent.num * (totalLines - 1) < (value + 1) * percent.den

\* value is wanted, brought into [0, totalLines - 1]
isClamped(value, wanted, totalLines) ==
    IF wanted < 0 THEN value = 0
    ELSE IF wanted > totalLines - 1 THEN value = totalLines - 1
    ELSE value = wanted

\* C19: the line handleWebviewScroll moves the editor to is the explicit line
\* when one is supplied, else floor(percent * (totalLines - 1)), in both cases
\* clamped into [0, totalLines - 1]; every input gives a line; 0.5 on a document
\* of 101 lines gives line 50.
C19_TargetLineClamped ==
    output.fn = "handleWebviewScroll"
    => /\ output.value \in 0..(input.totalLines - 1)
       /\ input.line # NoLine => isClamped(output.value, input.line, input.totalLines)
       /\ input.line = NoLine
          => \E wanted \in (0 - LongDocument)..(2 * LongDocument) :
                /\ isFloorOfProduct(wanted, input.percent, input.totalLines)
                /\ isClamped(output.value, wanted, input.totalLines)
       /\ (/\ input.line = NoLine
           /\ input.percent = percentOf(1, 2)
           /\ input.totalLines = LongDocument)
          => output.value = 50

\* C19 witness: the fraction 1/2 on the document of 101 lines was mapped to line 50
C19_HalfOfLongDocument ==
    /\ input = [fn |-> "handleWebviewScroll", percent |-> percentOf(1, 2),
                line |-> NoLine, totalLines |-> LongDocument]
    /\ output = [fn |-> "handleWebviewScroll", value |-> 50]

\* C20: the 'scrollFromEditor' message carries the first visible line as line and
\* line / (totalLines - 1) as percent, 0 when totalLines <= 1; percent lies in
\* [0, 1].
C20_PercentOfFirstVisibleLine ==
    output.fn = "syncWebviewScroll"
    => /\ output.value.type = "scrollFromEditor"
       /\ output.value.line = input.line
       /\ output.value.percent.den > 0
       /\ IF input.totalLines <= 1
          THEN output.value.percent.num = 0
          ELSE output.value.percent.num * (input.totalLines - 1)
                  = input.line * output.value.percent.den
       /\ 0 <= output.value.percent.num
       /\ output.value.percent.num <= output.value.percent.den

\* C20 witness: the last line of the long document was sent as the fraction 1
C20_LastLineIsOne ==
    /\ input = [fn |-> "syncWebviewScroll", line |-> 100, totalLines |-> LongDocument]
    /\ output.fn = "syncWebviewScroll"
    /\ output.value.line = 100
    /\ output.value.percent.num = output.value.percent.den

(***************************************************************************)
(* The cache key as a function of content and options                      *)
(***************************************************************************)
KeyContents == {"", "# Hello", "# Hello\""}

\* values an option of a Record<string, any> can hold
KeyValues ==
    <<[string |-> "b"], [string |-> "b\",\"theme\":\"c"], [string |-> "1"],
      [number |-> 1], [null |-> TRUE], [nan |-> TRUE], [undefined |-> TRUE]>>

\* option objects of no, one or two properties, the two in either insertion order
KeyOptions ==
    {<<>>}
    \cup {<<property("style", KeyValues[i])>> : i \in DOMAIN KeyValues}
    \cup {<<property("style", KeyValues[i]), property("theme", [string |-> "c"])>> :
            i \in DOMAIN KeyValues}
    \cup {<<property("theme", [string |-> "c"]), property("style", KeyValues[i])>> :
            i \in DOMAIN KeyValues}

KeyInputs == [markdown : KeyContents, options : KeyOptions]

\* two (content, options) inputs are chosen
InitKeys ==
    /\ now = 0
    /\ SurfaceIdle
    /\ newRenderCache(providerOptions)
    /\ ScrollIdle
    /\ panel = FALSE
    /\ currentDocument = NoDocument
    /\ managerDocument = NoDocument
    /\ cacheCleanupInterval = TRUE
    /\ UpdateIdle
    /\ input \in [fn : {"generateKey"}, first : KeyInputs, second : KeyInputs]
    /\ output = NoOutput

\* RenderCache.generateKey is applied to both inputs
callGenerateKey ==
    /\ output = NoOutput
    /\ input.fn = "generateKey"
    /\ output' = [fn |-> input.fn,
                  first |-> generateKey(input.first.markdown, input.first.options),
                  second |-> generateKey(input.second.markdown, input.second.options)]
    /\ UNCHANGED <<now, cacheVars, scrollVars, updVars, surfVars, input>>

NextKeys == callGenerateKey

SpecKeys == InitKeys /\ [][NextKeys]_vars

\* the value an options object holds under a name; undefined when it has none
optionValue(options, name) ==
    IF \E i \in DOMAIN options : options[i].name = name
    THEN options[CHOOSE i \in DOMAIN options : options[i].name = name].value
    ELSE [undefined |-> TRUE]

optionNames(options) == {options[i].name : i \in DOMAIN options}

\* the same option values: every option has the same value in both objects
sameOptionValues(a, b) ==
    \A name \in optionNames(a) \cup optionNames(b) :
        optionValue(a, name) = optionValue(b, name)

identicalInputs(a, b) ==
    a.markdown = b.markdown /\ sameOptionValues(a.options, b.options)

isJsonValue(value) == kindOf(value) \notin {"nan", "undefined"}

\* both objects were built by the same literal: JSON values, "style" first
sameLiteral(options) ==
    \A i \in DOMAIN options :
        /\ isJsonValue(options[i].value)
        /\ i = 1 => options[i].name = "style"

\* C21, for options objects that hold JSON values and list their properties in
\* one order: the same key if and only if the same content and the same options.
C21_SameKeyIffIdenticalJson ==
    (/\ output.fn = "generateKey"
     /\ sameLiteral(input.first.options)
     /\ sameLiteral(input.second.options))
    => (output.first = output.second <=> identicalInputs(input.first, input.second))

(***************************************************************************)
(* RenderCache: cleanExpired, delete, clear, has and get one by one        *)
(***************************************************************************)
\* the entries of c, in order, whose age at time t is at most the TTL
RECURSIVE youngEntries(_, _)
youngEntries(c, t) ==
    IF Len(c) = 0 THEN <<>>
    ELSE (IF t - Head(c).timestamp <= ttl THEN <<Head(c)>> ELSE <<>>)
         \o youngEntries(Tail(c), t)

\* C22: cleanExpired() removes every stored entry whose age exceeds the TTL and
\* no other entry, returns the number of entries it removed, and leaves no
\* stored entry of age above the TTL.
C22_CleanExpiredRemovesExactlyExpired ==
    [][(lastOp'.name = "cleanExpired" /\ cleanExpired) =>
          /\ cache' = youngEntries(cache, now)
          /\ lastOp'.n = Len(cache) - Len(cache')
          /\ \A i \in 1..Len(cache') : now - cache'[i].timestamp <= ttl]_vars

\* C22 witness: cleanExpired removed one entry and kept one of age exactly ttl
C22_RemovedOneKeptOne ==
    /\ lastOp.name = "cleanExpired" /\ lastOp.n = 1
    /\ Len(cache) = 1
    /\ now - cache[1].timestamp = ttl

\* the entries of c, in order, stored under another key than key
RECURSIVE entriesExcept(_, _)
entriesExcept(c, key) ==
    IF Len(c) = 0 THEN <<>>
    ELSE (IF Head(c).key # key THEN <<Head(c)>> ELSE <<>>) \o entriesExcept(Tail(c), key)

\* C23: delete(k) removes only the entry under k and leaves every other entry as
\* it was; for an absent key it changes nothing; clear() leaves the cache with
\* size 0 and memorySize 0.
C23_DeleteOneClearAll ==
    /\ [][\A key \in Keys :
            (lastOp'.name = "delete" /\ delete(key)) =>
                /\ cache' = entriesExcept(cache, key)
                /\ (\A i \in 1..Len(cache) : cache[i].key # key)
                      => cache' = cache /\ currentMemorySize' = currentMemorySize]_vars
    /\ [][(lastOp'.name = "clear" /\ clear) =>
            /\ Len(cache') = 0
            /\ currentMemorySize' = 0]_vars

\* C23 witness: delete removed the entry under its key and another entry stayed
C23_DeletedOneOfTwo ==
    /\ lastOp.name = "delete" /\ lastOp.status = "hit"
    /\ Len(cache) = 1

\* the entry the next eviction would pick; none in an empty cache
nextEvicted(c) == IF lruIndex(c) = 0 THEN <<>> ELSE <<c[lruIndex(c)]>>

\* a successful get(k) sets the entry's lastAccess to the current time, adds 1 to
\* its accessCount and changes no other entry
getHitStep(key) ==
    (lastOp'.name = "get" /\ lastOp'.status = "hit" /\ get(key)) =>
        \E i \in 1..Len(cache) :
            /\ cache[i].key = key
            /\ cache' = [cache EXCEPT ![i].lastAccess = now,
                                      ![i].accessCount = cache[i].accessCount + 1]

\* C24 (as claimed): has(k) never changes the lastAccess or accessCount of any
\* entry, and never changes which entry the next eviction picks; a successful
\* get(k) sets that entry's lastAccess to the current time and increments its
\* accessCount by exactly 1, changing no other entry.
C24_HasKeepsEvictionOrder ==
    [][\A key \in Keys :
          /\ (lastOp'.name = "has" /\ has(key)) =>
                /\ \A i \in 1..Len(cache') : \E j \in 1..Len(cache) : cache'[i] = cache[j]
                /\ nextEvicted(cache') = nextEvicted(cache)
          /\ getHitStep(key)]_vars

\* C24 (amended): has(k) never changes the lastAccess or accessCount of any
\* entry; when it finds its entry stored and unexpired, or finds none, it leaves
\* the cache as it was, and so the entry the next eviction picks; when it finds
\* its entry expired it removes that entry and no other. A successful get(k)
\* sets that entry's lastAccess to the current time and increments its
\* accessCount by exactly 1, changing no other entry.
C24_HasKeepsAccessMetadata ==
    [][\A key \in Keys :
          /\ (lastOp'.name = "has" /\ has(key)) =>
                /\ \A i \in 1..Len(cache') : \E j \in 1..Len(cache) : cache'[i] = cache[j]
                /\ lastOp'.status \in {"hit", "miss"}
                      => cache' = cache /\ nextEvicted(cache') = nextEvicted(cache)
                /\ lastOp'.status = "expired" => cache' = entriesExcept(cache, key)
          /\ getHitStep(key)]_vars

\* C24 witness: has found an entry that get had hit before, with another entry
\* stored in front of it
C24_HasAfterGetHit ==
    /\ lastOp.name = "has" /\ lastOp.status = "hit"
    /\ Len(cache) = 2
    /\ cache[2].accessCount = 2
    /\ cache[2].lastAccess > cache[2].timestamp

\* C30: with maxSize >= 1 and maxMemorySize > 0, a set of an html whose
\* estimated size is at most 20% of maxMemorySize never reaches the branch
\* 'the cache is empty but there is still no room', in any state reachable by
\* set, get, has, delete, clear and cleanExpired.
C30_AbortBranchUnreachable ==
    (maxSize >= 1 /\ maxMemorySize > 0 /\ lastOp.name = "set") => lastOp.status # "abort"

(***************************************************************************)
(* Update path: renders in flight                                          *)
(***************************************************************************)
\* C25: at most one MarkdownEngine.render invocation is in flight at any time: a
\* render request (timer, 'ready' message or switchDocument) that arrives while
\* a render is executing starts no second one.
C25_AtMostOneRenderInFlight == Cardinality(renders) <= 1

(***************************************************************************)
(* Scroll synchronisation: the suppression flags                           *)
(***************************************************************************)
\* C26: in every reachable state of a ScrollSyncManager isScrollingFromEditor and
\* isScrollingFromWebview are never both true, under every interleaving of
\* editor scroll events, 'scroll' messages from the surface and timer expirations.
C26_FlagsMutuallyExclusive == ~(isScrollingFromEditor /\ isScrollingFromWebview)

\* C26 witness: the event raised by handleWebviewScroll's revealRange is about to
\* reach the editor listener while isScrollingFromWebview is set
C26_EditorEventWhileFromWebview ==
    /\ isScrollingFromWebview
    /\ editorEvent
    /\ enableScrollSync

\* a 'scrollFromEditor' message is dispatched to the surface in this step
scrollFromEditorPosted ==
    /\ Len(toWebview') > Len(toWebview)
    /\ toWebview'[Len(toWebview')].type = "scrollFromEditor"

\* C27: while scroll sync is disabled by configuration no 'scrollFromEditor'
\* message is dispatched to the surface, not even by a debounce timer armed
\* before sync was disabled, and handleWebviewScroll neither moves the editor nor
\* changes a suppression flag.
C27_DisabledSyncPropagatesNothing ==
    [][~enableScrollSync =>
          /\ ~scrollFromEditorPosted
          /\ handleWebviewScroll =>
                UNCHANGED <<editorLine, editorEvent, isScrollingFromEditor,
                            isScrollingFromWebview, webviewResetTimers>>]_vars

\* C27, second half alone: while scroll sync is disabled handleWebviewScroll
\* neither moves the editor nor changes a suppression flag, and an editor scroll
\* arms no debounce timer.
C27_DisabledSyncIgnoresNewScrolls ==
    [][~enableScrollSync =>
          /\ handleWebviewScroll =>
                UNCHANGED <<editorLine, editorEvent, isScrollingFromEditor,
                            isScrollingFromWebview, webviewResetTimers>>
          /\ (\E line \in 0..(LineCount - 1) : UserScrollsEditor(line)) =>
                UNCHANGED <<isScrollingFromEditor, scrollTimeout>>]_vars

(***************************************************************************)
(* The surface's scroll position as a function of the message              *)
(***************************************************************************)
\* C28: when the surface receives a 'scrollFromEditor' message carrying a line
\* index, the scroll position it applies is determined by that line index, which
\* takes precedence over the fraction: two messages with the same line give the
\* same position whatever their fractions.
C28_LineDeterminesPosition ==
    (output.fn = "handleScrollFromEditor" /\ input.first.line = input.second.line)
    => output.first = output.second

\* C28, for the fraction: two messages with the same fraction give the same
\* position whatever their lines.
C28_FractionDeterminesPosition ==
    (output.fn = "handleScrollFromEditor" /\ input.first.percent = input.second.percent)
    => output.first = output.second

(***************************************************************************)
(* Update path: the ScrollSyncManager and the current document             *)
(***************************************************************************)
\* the command run for an editor the active-editor listener has not passed to
\* switchDocument: a document that was not markdown when its editor became
\* active and whose language mode was set to markdown afterwards
showPreviewOfUnswitched ==
    \E document \in Documents :
        /\ document # activeDocument
        /\ showPreview(document)

NextShow ==
    \/ NextUpdate
    \/ showPreviewOfUnswitched

SpecShow == InitUpdate /\ [][NextShow]_vars

\* C29: whenever a preview panel exists, the ScrollSyncManager in use is bound to
\* the provider's current document.
C29_ManagerBoundToCurrentDocument == panel => managerDocument = currentDocument

(***************************************************************************)
(* The patch engine: what in-place reconciliation leaves                   *)
(***************************************************************************)
\* a node list with the click listeners left out of account
RECURSIVE withoutListeners(_)
withoutListeners(nodes) ==
    [i \in 1..Len(nodes) |->
        [nodes[i] EXCEPT !.listeners = 0, !.children = withoutListeners(@)]]

\* result is what reconciling the children old with the children new leaves: the
\* new subtree when the counts differ by more than 10; else, position by
\* position, a copy of the new node where there is no old node or one of another
\* kind, and the old node, its own children reconciled, where the kinds agree
RECURSIVE isReconciled(_, _, _)
isReconciled(old, new, result) ==
    IF Len(old) - Len(new) > 10 \/ Len(new) - Len(old) > 10
    THEN result = new
    ELSE /\ Len(result) = Len(new)
         /\ \A i \in 1..Len(new) :
               IF i > Len(old) THEN result[i] = new[i]
               ELSE IF old[i].kind # new[i].kind THEN result[i] = new[i]
               ELSE /\ result[i].id = old[i].id
                    /\ result[i].kind = old[i].kind
                    /\ result[i].value = new[i].value
                    /\ isReconciled(old[i].children, new[i].children, result[i].children)

\* C31: during in-place reconciliation a position where old and new node differ
\* in kind is replaced by a copy of the new node, an element whose old and new
\* child counts differ by more than 10 has its subtree replaced by the new one;
\* otherwise children are reconciled positionally up to the shorter length, new
\* trailing children appended and extra trailing children removed.
C31_ReconciledByPosition ==
    [][\A html \in PatchHtmls :
          (patchStep(html) /\ ~ratioAboveHalf(html))
          => /\ lastPatch'.mode = "morph"
             /\ isReconciled(withoutListeners(previewChildren),
                             createNodes(parseHtml(html), nextNodeId),
                             withoutListeners(previewChildren'))]_vars

\* C31 witness: a paragraph of 2 children was reconciled with one of 13: the
\* paragraph is the old node and all its children are new
C31_SubtreeReplacedAboveTen ==
    /\ lastPatch.mode = "morph"
    /\ Len(previewChildren) = 1
    /\ previewChildren[1].id = 1
    /\ Len(previewChildren[1].children) = 13
    /\ previewChildren[1].children[1].id = 5

(***************************************************************************)
(* Update path: from the last change to the render                         *)
(***************************************************************************)
\* the previewed document has been quiet for ChangeDebounceMs: the timer armed by
\* its last change event fires
quietIntervalEnds ==
    /\ panel
    /\ debounceTimeout.document = currentDocument
    /\ now = debounceTimeout.deadline
    /\ DebounceTimeoutFires

\* C32: once the previewed document has been quiet for 100 ms, measured from the
\* last change event of a burst, the render starts: then, not later.
C32_RenderStartsAfterQuietInterval ==
    [][quietIntervalEnds => Len(started') = Len(started) + 1]_vars

(***************************************************************************)
(* The patch engine against a wholesale replacement                        *)
(***************************************************************************)
\* C33: after handleUpdate(html) on any prior content the tree below #preview is
\* structurally equal (node kinds, tag names, attributes, text, child order) to
\* the tree html parses to.
C33_TreeEqualsParsedHtml ==
    [][\A html \in PatchHtmls :
          handleUpdateStep(html) => structure(previewChildren') = parseHtml(html)]_vars

\* C33, for the two paths that assign innerHTML (an empty surface, or a length
\* ratio above 0.5): the tree below #preview is the tree html parses to.
C33_AssignedTreeEqualsParsedHtml ==
    [][\A html \in PatchHtmls :
          (handleUpdateStep(html) /\ lastPatch'.mode \in {"set", "replace"})
          => structure(previewChildren') = parseHtml(html)]_vars

(***************************************************************************)
(* Update path: every change is eventually shown                           *)
(***************************************************************************)
\* what the event loops do without the user: timers fire when due, awaited
\* promises settle, posted messages are handled, time passes
scheduledStep ==
    \/ DebounceTimeoutFires
    \/ UpdateTimeoutFires
    \/ \E r \in renders : RenderResolves(r)
    \/ \E r \in renders : RenderRejects(r)
    \/ ReceiveUpdate
    \/ ReceiveError
    \/ TickUpdate

\* the user edits markdown documents while the preview is open; the event loops run
NextChanges ==
    \/ \E document \in Documents, text \in Texts : changeDocumentListener(document, text)
    \/ scheduledStep

SpecChanges == InitScroll /\ [][NextChanges]_vars /\ WF_vars(scheduledStep)

\* the previewed document has been changed, and no doUpdatePreview invocation
\* has started from its current text
changeNotRendered ==
    /\ panel
    /\ docText[currentDocument] # FirstText
    /\ \A generation \in 1..Len(started) :
          started[generation].markdown # docText[currentDocument]

\* the model's horizon is reached: a timer is due after MaxTimeUpdate, or
\* MaxRenders invocations have started
horizonReached ==
    \/ \E deadline \in updateTimers : deadline > MaxTimeUpdate
    \/ Len(started) >= MaxRenders

\* C34: while a preview panel is open, after the last change to the previewed
\* document, and whatever change events occur on other markdown documents, the
\* surface eventually receives an 'update' or 'error' computed from that
\* document's final text: a render from that text eventually starts.
C34_FinalTextEventuallyRendered ==
    changeNotRendered ~> (~changeNotRendered \/ horizonReached)


(***************************************************************************)
(* Clicks on the links of the preview                                      *)
(***************************************************************************)
\* every node at or below nodes, in document order
RECURSIVE descendants(_)
descendants(nodes) ==
    IF nodes = <<>> THEN <<>>
    ELSE <<Head(nodes)>> \o descendants(Head(nodes).children) \o descendants(Tail(nodes))

\* preview.querySelectorAll('a[href]')
links ==
    {node \in {descendants(previewChildren)[i] :
                  i \in 1..Len(descendants(previewChildren))} :
        node.kind = "element" /\ node.tag = "a" /\ hasAttribute(node.attrs, "href")}

\* link.getAttribute(name) of an attribute that is there
getAttribute(attrs, name) ==
    attrs[CHOOSE i \in 1..Len(attrs) : attrs[i][1] = name][2]

\* what one click listener of a link posts: 'openExternal' for an http(s) href
listenerPosts(link) ==
    IF isExternal(getAttribute(link.attrs, "href"))
    THEN <<[type |-> "openExternal", url |-> getAttribute(link.attrs, "href")]>>
    ELSE <<>>

\* what the listeners of a link post between them, one after the other
RECURSIVE listenersPost(_, _)
listenersPost(link, n) ==
    IF n = 0 THEN <<>> ELSE listenerPosts(link) \o listenersPost(link, n - 1)

\* the user clicks a link of the preview: each click listener attached to it runs
clickLink(link) ==
    /\ userEvent
    /\ toExtension = <<>>
    /\ link \in links
    /\ toExtension' = listenersPost(link, link.listeners)
    /\ UNCHANGED <<surfVars, fnVars, now, cacheVars, isScrollingFromEditor,
                   isScrollingFromWebview, scrollTimeout, webviewResetTimers,
                   enableScrollSync, editorLine, editorEvent, wvIsScrollingFromEditor,
                   wvScrollTimeout, wvResetTimers, scrollTop, wvScrollEvent, toWebview,
                   appliedAt, echoRevealed, panel, currentDocument, managerDocument,
                   cacheCleanupInterval, updateTimeout, debounceTimeout, docText,
                   markdownStyle, codeTheme, readyStage, renders, started, lastPosted,
                   notifications, rejected, consoleWarn, activeDocument>>

\* handleWebviewMessage(message), case 'openExternal': vscode.env.openExternal
handleWebviewMessageOpenExternal ==
    /\ toExtension # <<>>
    /\ isWebviewToExtensionMessage(Head(toExtension))
    /\ Head(toExtension).type = "openExternal"
    /\ toExtension' = Tail(toExtension)
    /\ UNCHANGED <<surfVars, fnVars, now, cacheVars, updVars, isScrollingFromEditor,
                   isScrollingFromWebview, scrollTimeout, webviewResetTimers,
                   enableScrollSync, editorLine, editorEvent, wvIsScrollingFromEditor,
                   wvScrollTimeout, wvResetTimers, scrollTop, wvScrollEvent, toWebview,
                   appliedAt, echoRevealed>>

\* updates reach the surface, the user clicks links, the extension opens them
NextLinks ==
    \/ NextSurface
    \/ \E link \in links : clickLink(link)
    \/ handleWebviewMessageOpenExternal

SpecLinks == InitScroll /\ [][NextLinks]_vars

\* the user clicks an external link of the preview
clickExternalLink ==
    \E link \in links :
        /\ isExternal(getAttribute(link.attrs, "href"))
        /\ clickLink(link)

\* C35 (as claimed): after any number of successive updates applied to the
\* surface, one click on an external (http/https) link in the preview posts
\* exactly one 'openExternal' message.
C35_OneClickPostsOnce ==
    [][clickExternalLink => Len(toExtension') = 1]_vars

\* C35 (what holds): one click on an external link posts as many 'openExternal'
\* messages as updates have passed over the link element since it was created.
C35_OneClickPostsPerUpdate ==
    [][\A link \in links :
          (isExternal(getAttribute(link.attrs, "href")) /\ clickLink(link))
          => /\ Len(toExtension') = link.listeners
             /\ link.listeners >= 1]_vars


(***************************************************************************)
(* RenderCache: set on a key that is stored                                *)
(***************************************************************************)
\* set(key, html) runs for a stored key, with an html that is not oversized and
\* no larger than the value it replaces
overwriteStep(key, html) ==
    /\ indexOf(cache, key) # 0
    /\ ~isOversized(estimateSize(html))
    /\ estimateSize(html) <= estimateSize(cache[indexOf(cache, key)].html)
    /\ set(key, html)

\* C36 (as claimed): set(k, h) for a key k that is already stored, with a
\* non-oversized h no larger than the value it replaces, removes no entry other
\* than the old value of k.
C36_OverwriteEvictsNoOtherKey ==
    [][\A key \in Keys, html \in Htmls :
          overwriteStep(key, html)
          => \A i \in 1..Len(cache) :
                cache[i].key # key => indexOf(cache', cache[i].key) # 0]_vars

\* C36 (what holds): below the entry limit and with room in memory, overwriting
\* a stored key removes no entry, and the key holds the new html afterwards.
C36_OverwriteBelowLimitKeepsAll ==
    [][\A key \in Keys, html \in Htmls :
          (/\ overwriteStep(key, html)
           /\ ~needsRoom(cache, currentMemorySize, estimateSize(html)))
          => /\ \A i \in 1..Len(cache) : indexOf(cache', cache[i].key) = i
             /\ cache'[indexOf(cache, key)].html = html]_vars


(***************************************************************************)
(* RenderCache: the eviction loop of set                                   *)
(***************************************************************************)
\* C37 (as claimed): set terminates for every key (including the empty string)
\* and every html in every reachable cache state: no call of set is left
\* spinning in its eviction loop.
C37_SetTerminates == ~hung

\* C37 (what holds): a set that finds no entry under the empty key returns, and
\* its loop has removed at most as many entries as were stored.
C37_SetTerminatesWithoutEmptyKey ==
    [][\A key \in Keys, html \in Htmls :
          (set(key, html) /\ indexOf(cache, "") = 0)
          => ~hung' /\ lastOp'.n <= Len(cache)]_vars


(***************************************************************************)
(* The periodic cache sweep                                                *)
(***************************************************************************)
\* C38 (as claimed): whenever a preview panel is open, the periodic cache sweep
\* is armed, also for a panel opened by showPreview after an earlier panel of
\* the same provider was disposed.
C38_SweepArmedWhilePanelOpen == panel => cacheCleanupInterval

\* C38 (what holds): the sweep armed by the constructor stays armed until
\* dispose(), and nothing arms it afterwards.
C38_SweepArmedUntilDispose ==
    [][/\ (cacheCleanupInterval /\ panel') => cacheCleanupInterval'
       /\ ~cacheCleanupInterval => ~cacheCleanupInterval']_vars


(***************************************************************************)
(* Renders that complete after dispose()                                   *)
(***************************************************************************)
\* a render that was in flight completes while no panel exists
completesWithoutPanel ==
    /\ ~panel
    /\ \E r \in renders : RenderResolves(r) \/ RenderRejects(r)

\* C39 (as claimed): a render that is still in flight when dispose() runs has no
\* effect when it completes: it raises no error, attempts no postMessage on the
\* disposed panel, and writes nothing to the cache, which stays empty until the
\* next showPreview.
C39_LateRenderHasNoEffect ==
    [][completesWithoutPanel => (rejected' = rejected /\ cache' = <<>>)]_vars

\* C39 (what holds): the completion of such a render delivers nothing to a
\* surface and raises no notification.
C39_LateRenderReachesNoSurface ==
    [][completesWithoutPanel
          => /\ toWebview' = toWebview
             /\ lastPosted' = lastPosted
             /\ notifications' = notifications]_vars


(***************************************************************************)
(* The console.warn interceptor of doUpdatePreview                         *)
(***************************************************************************)
\* C40 (as claimed): whenever no render is in flight, console.warn is the
\* original function it was before any render started, for every interleaving
\* of overlapping doUpdatePreview invocations.
C40_WarnRestoredWhenIdle == renders = {} => consoleWarn = <<>>

\* C40 (what holds): when the renders complete in the reverse of the order they
\* started in, each restores what it found: a completing render whose
\* interceptor is the current console.warn leaves its originalWarn installed.
C40_InnermostFirstRestoresWarn ==
    [][\A r \in renders :
          (/\ consoleWarn = interceptor(r.generation, r.originalWarn)
           /\ (RenderResolves(r) \/ RenderRejects(r)))
          => consoleWarn' = r.originalWarn]_vars

=============================================================================
